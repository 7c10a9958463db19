-------------------------------- MODULE Access --------------------------------
(***************************************************************************)
(* One access checked: who asks (auth.rs), for which project, and what the *)
(* database's rules make of it (rules.rs of the server).                   *)
(*                                                                         *)
(* An authorization is [kind, uid, project]: "none", "admin" or "user";    *)
(* project is Anywhere for credentials that are bound to none.             *)
(* Of request.auth the uid is kept, and request.time is left out.          *)
(***************************************************************************)
EXTENDS Rules

CONSTANTS
    Anywhere,
    NoRules,    \* in place of a database's ruleset
    Database    \* the database's id

Anonymous == [kind |-> "none", uid |-> Null, project |-> Anywhere]

\* A credential of another project is nobody here.
ForProject(auth, project) ==
    IF auth.project \notin {Anywhere, project} THEN Anonymous ELSE auth

AuthValue(auth) ==
    IF auth.kind = "user" THEN MapOf([uid |-> auth.uid]) ELSE Null

\* An access names its project, its operation, its document or collection, the
\* fields it brings (Null if none) and the documents there are.
ResourceOf(docs, path) == IF path \in DOMAIN docs THEN Document(docs, path) ELSE Null

RequestValue(auth, access, rulesPath) ==
    LET request == [auth |-> AuthValue(auth), method |-> Str(access.operation), path |-> PathOf(rulesPath)]
        brings == [resource |-> MapOf([data |-> access.incoming, id |-> Str(Last(access.path))])]
    IN  MapOf(IF access.incoming = Null THEN request
              ELSE [name \in DOMAIN request \cup {"resource"} |->
                      IF name = "resource" THEN brings.resource ELSE request[name]])

\* What the rules make of an access to a path by someone.
Judge(ruleset, who, access, rulesPath) ==
    LET resource == IF access.operation = "list" THEN Null ELSE ResourceOf(access.docs, access.path)
    IN  Decide(ruleset,
               [version |-> ruleset.version, operation |-> access.operation, path |-> rulesPath,
                globals |-> << <<"request", RequestValue(who, access, rulesPath)>>,
                               <<"resource", resource>> >>,
                docs |-> access.docs])

\* A path as rules see it.
Under(names) == <<"databases", Database, "documents">> \o names

\* Rules see the collection of a list with an unspecified document in it.
RulesPath(access) ==
    Under(access.path \o IF access.operation = "list" THEN <<WILDCARD>> ELSE << >>)

\* check: administrators pass, and everybody does where there are no rules.
Allowed(ruleset, auth, access) ==
    LET who == ForProject(auth, access.project)
    IN  \/ who.kind = "admin"
        \/ ruleset = NoRules
        \/ "allow" = Judge(ruleset, who, access, RulesPath(access))
=============================================================================
