------------------------------ MODULE AccessProps ------------------------------
(***************************************************************************)
(* What must be true of every decision of Access.                          *)
(***************************************************************************)
EXTENDS Access

\* What a block's own segments make of the part of the path it takes: a
\* literal or a capture takes one name, a glob takes what is left, and with
\* more names than segments there has to be a glob.
Splits(version, segments, part) ==
    \E ends \in [0 .. Len(segments) -> 0 .. Len(part)] :
        /\ ends[0] = 0 /\ ends[Len(segments)] = Len(part)
        /\ \A k \in DOMAIN segments :
              /\ ends[k] >= ends[k - 1]
              /\ segments[k].kind = "glob" => version = 2 \/ ends[k] > ends[k - 1]
              /\ segments[k].kind # "glob" => ends[k] = ends[k - 1] + 1
              /\ segments[k].kind = "literal" => part[ends[k]] = segments[k].name

HasGlob(segments) == \E k \in DOMAIN segments : segments[k].kind = "glob"

\* The chains of blocks from one of the top, with how much of the path the
\* chain has taken: a block that has a glob leaves nothing for its children.
RECURSIVE Chains(_, _, _, _)
Chains(blocks, version, path, from) ==
    UNION {LET block == blocks[k]
               stops == {n \in from .. Len(path) :
                           /\ HasGlob(block.path) => n = Len(path)
                           /\ Splits(version, block.path, SubSeq(path, from + 1, n))}
           IN  UNION {{[blocks |-> <<block>>, ends |-> <<from, n>>]} \cup
                      {[blocks |-> <<block>> \o c.blocks, ends |-> <<from>> \o c.ends] :
                       c \in Chains(block.children, version, path, n)} : n \in stops} :
           k \in DOMAIN blocks}

\* What the segments of one block capture of the part they take.
Captures(segments, part) ==
    LET at(k) == IF \E j \in 1 .. k - 1 : segments[j].kind = "glob"
                 THEN Len(part) - (Len(segments) - k) ELSE k
        value(k) == IF segments[k].kind = "glob"
                    THEN PathOf(SubSeq(part, k, Len(part) - (Len(segments) - k)))
                    ELSE IF part[at(k)] = WILDCARD THEN Undefined ELSE Str(part[at(k)])
    IN  {<<segments[k].name, value(k)>> : k \in {j \in DOMAIN segments : segments[j].kind # "literal"}}

\* A binding of the innermost block that captures the name.
ScopeOf(chain, path) ==
    FlattenSeq([k \in DOMAIN chain.blocks |->
        SetToSeq(Captures(chain.blocks[k].path, SubSeq(path, chain.ends[k] + 1, chain.ends[k + 1])))])

\* "Sibling allow statements combine as ternary-OR: any true rescues an
\* erroring sibling, and errors only deny if nothing granted" (matcher.rs), and
\* a credential of another project is anonymous, an administrator's bypasses
\* (rules.rs): an access is allowed exactly when some statement on some chain
\* of blocks that takes the whole path is true by itself, with the captures and
\* functions of that chain and of no other block.  A statement that runs out of
\* its budget may end the search for another.
GrantedByAStatement(ruleset, auth, access) ==
    LET nobody == auth.project \notin {Anywhere, access.project}
        who == IF nobody THEN Anonymous ELSE auth
        path == RulesPath(access)
        globals == << <<"request", RequestValue(who, access, path)>>,
                      <<"resource", IF access.operation = "list" THEN Null
                                    ELSE ResourceOf(access.docs, access.path)>> >>
        chains == {c \in Chains(ruleset.matches, ruleset.version, path, 0) : Last(c.ends) = Len(path)}
        env(chain) ==
          [functions |-> ruleset.functions
                           \o FlattenSeq([k \in DOMAIN chain.blocks |-> chain.blocks[k].functions]),
           docs |-> access.docs]
        outcomes == UNION {{Eval(allow.condition, globals \o ScopeOf(c, path), env(c), FreshBudget) :
                              allow \in {a \in ToSet(Last(c.blocks).allows) :
                                           \E m \in a.methods : CoveredBy(access.operation, m)}} :
                           c \in chains}
        granted == (auth.kind = "admin" /\ ~nobody) \/ \E o \in outcomes : ~o.budget.fatal /\ IsTrue(o.v)
    IN  /\ Allowed(ruleset, auth, access) => granted
        /\ granted => \/ Allowed(ruleset, auth, access)
                      \/ \E o \in outcomes : o.budget.fatal

\* "A rule that depends on the document id denies rather than matching a
\* fabricated value" (WILDCARD_SEGMENT of matcher.rs): a list that is allowed
\* is allowed by the same rules whatever the id of the document listed.
ListForEveryId(ruleset, auth, access, ids) ==
    access.operation = "list" /\ Allowed(ruleset, auth, access) =>
        \/ ForProject(auth, access.project).kind = "admin"
        \/ \A id \in ids :
              Judge(ruleset, ForProject(auth, access.project), access, Under(Append(access.path, id))) = "allow"
=============================================================================
