------------------------------- MODULE MCAccess -------------------------------
(***************************************************************************)
(* The credentials store, the signing keys, an external issuer's keys and  *)
(* the rules: they share no state, and a behaviour is about one of them.   *)
(***************************************************************************)
EXTENDS CredentialsProps, SigningKeysProps, ExternalKeysProps, AccessProps, TLC

VARIABLES
    part,
    ruleset     \* what the rules' part is about

CredentialsOff == account = Live /\ Init /\ Ops = {"assertion", "create"}
KeysOff == made = 0 /\ KeysInit /\ mix = {"mint", "drop"}
VerifierOff == VerifierInit /\ published = {"k1"}

-----------------------------------------------------------------------------
(* Rulesets over users/{id}: expressions, blocks, and two blocks in a row. *)

Val(v) == [op |-> "value", value |-> v]
Var(name) == [op |-> "var", name |-> name]
Apply(op, args) == [op |-> op, of |-> args]
Invoke(name, args) == [op |-> "call", name |-> name, of |-> args]
Dot(e, name) == [op |-> ".", name |-> name, of |-> <<e>>]

Yes == Val(Bool(TRUE))
No == Val(Bool(FALSE))
Id == Var("id")
Alice == Val(Str("alice"))
Uid == Dot(Dot(Var("request"), "auth"), "uid")
IsAlice == Apply("==", <<Id, Alice>>)

Declare(name, params, body) == [name |-> name, params |-> params, lets |-> << >>, body |-> body]

\* A function of a block, and one that calls itself for ever.
NotBob == Declare("notBob", <<"x">>, Apply("!=", <<Var("x"), Val(Str("bob"))>>))
Loop == Declare("loop", << >>, Invoke("loop", << >>))

Conditions ==
    {Yes, IsAlice, Apply("!", <<IsAlice>>), Apply("||", <<IsAlice, Yes>>),
     Apply("||", <<IsAlice, No>>), Apply("!", <<Apply("&&", <<IsAlice, No>>)>>),
     Apply("?:", <<IsAlice, No, Yes>>), Invoke("notBob", <<Id>>), Invoke("notBob", <<Alice>>),
     Invoke("loop", << >>),
     Invoke("exists", <<Apply("path", <<Val(Str("databases")), Var("database"),
                                        Val(Str("documents")), Val(Str("users")), Id>>)>>),
     [op |-> "is", name |-> "number", of |-> <<Id>>],
     Apply("==", <<Apply("%", <<Val(Int64(-3)), Val(Int64(2))>>), Val(Int64(-1))>>),
     Apply("==", <<Uid, Id>>),
     Apply("==", <<Dot(Dot(Var("resource"), "data"), "owner"), Uid>>),
     Apply("in", <<Val(Str("owner")), Dot(Var("resource"), "data")>>),
     Apply("==", <<Apply("[]", <<Var("rest"), Val(Int64(0))>>), Alice>>),
     Apply("<", <<Apply("+", <<Val(Int64(Largest)), Val(Int64(1))>>), Val(Int64(0))>>),
     Apply("in", <<Id, Apply("list", <<Alice, Uid>>)>>)}

Statement(method, condition) == [methods |-> {method}, condition |-> condition]
Block(path, functions, allows, children) ==
    [path |-> path, functions |-> functions, allows |-> allows, children |-> children]
Name(name) == [kind |-> "literal", name |-> name]
AnyName(name) == [kind |-> "capture", name |-> name]
AnyPath(name) == [kind |-> "glob", name |-> name]

Blocks(c) ==
    {Block(<<Name("users"), AnyName("id")>>, <<NotBob>>, <<Statement("read", c)>>, << >>),
     Block(<<Name("users")>>, << >>, <<Statement("list", Yes)>>,
           << Block(<<AnyName("id")>>, << >>, <<Statement("write", Yes), Statement("read", c)>>,
                    << Block(<<AnyPath("rest")>>, << >>, <<Statement("get", c)>>, << >>) >>) >>),
     Block(<<Name("users"), AnyPath("rest"), AnyName("id")>>, << >>, <<Statement("read", c)>>, << >>),
     Block(<<Name("users"), Name("alice")>>, << >>, <<Statement("get", c)>>, << >>)}

Firsts == UNION {Blocks(c) : c \in {IsAlice, Invoke("notBob", <<Id>>), Invoke("loop", << >>)}}

InDocuments(blocks) ==
    Block(<<Name("databases"), AnyName("database"), Name("documents")>>, << >>, << >>, blocks)

Rulesets ==
    {[version |-> 2, functions |-> <<Loop>>, matches |-> <<InDocuments(<<b, c>>)>>] :
        b \in Firsts, c \in UNION {Blocks(d) : d \in Conditions}}
      \cup {[version |-> 1, functions |-> <<Loop>>,
             matches |-> <<Block(<<AnyPath("any"), Name("alice")>>, <<NotBob>>, <<Statement("write", c)>>, << >>),
                           InDocuments(<<Block(<<Name("users"), AnyPath("rest")>>, << >>,
                                               <<Statement("read", c)>>, << >>)>>)>>] :
               c \in Conditions}

UserDocs ==
    << "users", "alice" >> :> [owner |-> Str("bob")] @@ << "users", "bob" >> :> [owner |-> Str("alice")]

User(uid, project) == [kind |-> "user", uid |-> Str(uid), project |-> project]
Admin(project) == [kind |-> "admin", uid |-> Null, project |-> project]

Auths == {Anonymous, User("alice", Anywhere), User("alice", "p2"), Admin("p1"), Admin("p2")}

AccessTo(operation, path) ==
    [project |-> "p1", operation |-> operation, path |-> path, docs |-> UserDocs,
     incoming |-> IF operation = "update" THEN MapOf([owner |-> Str("alice")]) ELSE Null]

Accesses ==
    {AccessTo(o, << "users", id >>) : o \in {"get", "update"}, id \in {"alice", "carol"}}
      \cup {AccessTo("list", <<"users">>)}

GrantsAreStatements ==
    part = "rules" =>
        \A auth \in Auths, access \in Accesses : GrantedByAStatement(ruleset, auth, access)

ListsHoldForEveryId ==
    part = "rules" =>
        \A auth \in Auths, access \in Accesses :
            ListForEveryId(ruleset, auth, access, {"alice", "bob", "carol"})

-----------------------------------------------------------------------------

MCInit ==
    \/ /\ part = "credentials" /\ Init
       /\ KeysOff /\ VerifierOff /\ ruleset = NoRules
    \/ /\ part = "keys" /\ KeysInit
       /\ CredentialsOff /\ VerifierOff /\ ruleset = NoRules
    \/ /\ part = "external" /\ VerifierInit
       /\ CredentialsOff /\ KeysOff /\ ruleset = NoRules
    \/ /\ part = "rules" /\ ruleset \in Rulesets
       /\ CredentialsOff /\ KeysOff /\ VerifierOff

MCNext ==
    /\ \/ part = "credentials" /\ Next /\ UNCHANGED <<keyVars, keyVerifierVars>>
       \/ part = "keys" /\ KeysNext /\ UNCHANGED <<vars, keyVerifierVars>>
       \/ part = "external" /\ VerifierNext /\ UNCHANGED <<vars, keyVars>>
    /\ UNCHANGED <<part, ruleset>>

MCSpec == MCInit /\ [][MCNext]_<<part, ruleset, vars, keyVars, keyVerifierVars>>

\* The parts' variables stay in their types.
TypesOK == TypeOK /\ KeysTypeOK /\ VerifierTypeOK

Symmetry == Permutations(Tasks) \cup Permutations(Instances)
=============================================================================
