---------------------------- MODULE UsersProofs ----------------------------
(***************************************************************************)
(* What start-up promises to the routes, and users and tokens across       *)
(* crashes, restarts and resets, for any number of migrations, clients and *)
(* failures.                                                               *)
(***************************************************************************)
EXTENDS Users, TLAPS

\* The recorded version is true unless the flag says that it may not be.
BootInv ==
  /\ BootTypeOK
  /\ ~dirty => schema = 1..version
  /\ dirty => version >= 1 /\ schema \in {1..(version - 1), 1..version}
  /\ server = "mark" => ~dirty /\ version < Last
  /\ server = "run" => dirty /\ schema = 1..(version - 1)
  /\ server = "clear" => dirty /\ schema = 1..version
  /\ server = "connecting" => attempts < MaxRetries

LEMMA InitBoot == BootInit => BootInv
<1> SUFFICES ASSUME BootInit PROVE BootInv
  OBVIOUS
<1>1. schema = 1..version
  BY DEF BootInit
<1>2. 0 \in 0..Last /\ 0 \in 0..MaxRetries /\ 0 \in 0..MaxFaults /\ 0 \in 0..MaxResets
  BY StartupAssumption
<1>3. BootTypeOK
  BY <1>2 DEF BootInit, BootTypeOK
<1> QED
  BY <1>1, <1>3, StartupAssumption DEF BootInit, BootInv

LEMMA StartKeepsBoot ==
  ASSUME BootInv, StartStep PROVE BootInv'
<1> USE StartupAssumption DEF BootInv, BootTypeOK, migrations, Fatal, UpToDate, OutOfAttempts
<1>1. CASE Boot
  BY <1>1 DEF Boot
<1>2. CASE Connect \/ ConnectFails
  BY <1>2 DEF Connect, ConnectFails
<1>3. CASE ReadVersion
  BY <1>3 DEF ReadVersion
<1>4. CASE RefuseDirty \/ MigrateFails
  BY <1>4 DEF RefuseDirty, MigrateFails
<1>5. CASE MarkDirty
  <2>1. version < Last /\ schema = 1..version /\ version' = version + 1 /\ version \in Nat
    BY <1>5 DEF MarkDirty
  <2>2. schema' = 1..(version' - 1)
    BY <1>5, <2>1 DEF MarkDirty
  <2> QED
    BY <1>5, <2>1, <2>2 DEF MarkDirty
<1>6. CASE ClearDirty
  <2>1. version \in 0..Last /\ version' = version /\ schema' = 1..version /\ ~dirty'
        /\ server' \in {"serving", "mark"} /\ (server' = "mark" => version' < Last)
    BY <1>6 DEF ClearDirty
  <2> QED
    BY <1>6, <2>1 DEF ClearDirty
<1> QED
  BY <1>1, <1>2, <1>3, <1>4, <1>5, <1>6 DEF StartStep

LEMMA RunKeepsBoot ==
  ASSUME BootInv, RunMigration PROVE BootInv'
<1> USE StartupAssumption DEF BootInv, BootTypeOK, RunMigration
<1>1. version \in Nat /\ version >= 1 /\ schema = 1..(version - 1) /\ schema' = schema \cup {version}
  OBVIOUS
<1>2. schema' = 1..version
  BY <1>1
<1> QED
  BY <1>2

LEMMA EnvironmentKeepsBoot ==
  ASSUME BootInv, DbUp \/ DbDown \/ ServerCrash \/ MigrationFails \/ Reset
  PROVE  BootInv'
<1>1. CASE DbUp \/ DbDown
  BY <1>1, StartupAssumption DEF DbUp, DbDown, migrations, BootInv, BootTypeOK
<1>2. CASE ServerCrash \/ MigrationFails
  BY <1>2, StartupAssumption
  DEF ServerCrash, MigrationFails, Fatal, migrations, BootInv, BootTypeOK
<1>3. CASE Reset
  <2>1. resets \in 0..MaxResets /\ 0 \in 0..Last /\ MaxResets \in Nat
    BY StartupAssumption DEF BootInv, BootTypeOK
  <2>2. resets' \in 0..MaxResets
    BY <1>3, <2>1 DEF Reset
  <2>3. BootTypeOK'
    BY <1>3, <2>1, <2>2 DEF Reset, BootInv, BootTypeOK
  <2>4. schema' = 1..version' /\ ~dirty'
    BY <1>3 DEF Reset
  <2>5. server' = server /\ attempts' = attempts /\ server \notin {"mark", "run", "clear"}
    BY <1>3 DEF Reset
  <2> QED
    BY <2>3, <2>4, <2>5 DEF BootInv
<1> QED
  BY <1>1, <1>2, <1>3

\* Every step of ServerNext, as far as the variables of Startup go.
LEMMA BootPart ==
  ASSUME [ServerNext]_serverVars
  PROVE  \/ StartStep \/ RunMigration
         \/ DbUp \/ DbDown \/ ServerCrash \/ MigrationFails \/ Reset
         \/ UNCHANGED bootVars
BY DEF ServerNext, serverVars, BringUp, SeedUsers, Surroundings, CutOff, DropUsers, Tick,
       UserRequest

LEMMA NextBoot ==
  ASSUME BootInv, [ServerNext]_serverVars PROVE BootInv'
<1>1. CASE UNCHANGED bootVars
  BY <1>1 DEF bootVars, BootInv, BootTypeOK
<1> QED
  BY <1>1, BootPart, StartKeepsBoot, RunKeepsBoot, EnvironmentKeepsBoot

\* No start, however often earlier ones died in the middle of a migration, ends
\* in serving on a schema that is not complete (main.go, runMigrations).
THEOREM ServesComplete == ServerSpec => ServesCompleteSchema
<1>1. UserInit => BootInv
  BY InitBoot DEF UserInit
<1>2. BootInv /\ [ServerNext]_serverVars => BootInv'
  BY NextBoot
<1>3. BootInv /\ [ServerNext]_serverVars =>
        [server # "serving" /\ server' = "serving" => schema' = 1..Last /\ ~dirty']_bootVars
  <2> SUFFICES ASSUME BootInv, [ServerNext]_serverVars,
                      server # "serving", server' = "serving"
               PROVE  schema' = 1..Last /\ ~dirty'
    OBVIOUS
  <2>1. ReadVersion \/ ClearDirty
    BY BootPart DEF StartStep, Boot, Connect, ConnectFails, RefuseDirty, MarkDirty,
         MigrateFails, Fatal, RunMigration, DbUp, DbDown, ServerCrash, MigrationFails,
         Reset, bootVars
  <2>2. CASE ReadVersion
    BY <2>2 DEF ReadVersion, BootInv, migrations, UpToDate
  <2>3. CASE ClearDirty
    BY <2>3 DEF ClearDirty, BootInv
  <2> QED
    BY <2>1, <2>2, <2>3
<1> QED
  BY <1>1, <1>2, <1>3, PTL DEF ServerSpec, ServesCompleteSchema
-----------------------------------------------------------------------------
(* Users and tokens.                                                         *)

\* A user c has read, or is named by a token of c.
Names(c, id, role, epoch) ==
  /\ id < nextId /\ epoch <= resets
  /\ epoch = resets => \E row \in users : row.id = id
  /\ \A row \in users : row.id = id => row.password = c /\ row.role = role
  /\ id < FirstId => \E row \in Seeds : row.id = id /\ row.password = c /\ row.role = role

\* Ids are never used twice, and the rows are gone until the last migration.
TableInv ==
  /\ nextId >= FirstId
  /\ \A row \in users : row.id < nextId /\ (row.id < FirstId => row \in Seeds)
  /\ \A a, b \in users : a.id = b.id => a = b
  /\ Last \notin schema => users = {}

\* Handlers run only in a server that serves, each with the request it is for;
\* the token a refresh came with stays its client's.
RequestInv(c) ==
  /\ server # "serving" => upc[c] = "idle"
  /\ upc[c] = "insert" => ureq[c].op = "register"
  /\ upc[c] = "lookup" => ureq[c].op # "refresh"
  /\ upc[c] \in {"validate", "find"} => ureq[c].token \in Tokens(c)
  /\ upc[c] = "issue" /\ ureq[c].op = "refresh" => ureq[c].token \in Tokens(c)

\* The id of a registration is nobody's yet.
FreshId(c) ==
  upc[c] = "insert" =>
    /\ ureq[c].id >= FirstId /\ ureq[c].id < nextId
    /\ \A row \in users : row.id # ureq[c].id
    /\ \A d \in Client :
         /\ d # c /\ upc[d] = "insert" => ureq[d].id # ureq[c].id
         /\ upc[d] = "issue" => found[d].row.id # ureq[c].id
         /\ \A token \in Tokens(d) : token.id # ureq[c].id

TokenInv(c) ==
  /\ upc[c] = "issue" => Names(c, found[c].row.id, found[c].row.role, found[c].schema)
  /\ \A token \in Tokens(c) : Names(c, token.id, token.role, token.schema)

UsersInv ==
  /\ BootInv /\ ServerTypeOK /\ TableInv
  /\ \A c \in Client : RequestInv(c) /\ FreshId(c) /\ TokenInv(c)

LEMMA Defaults ==
  NoToken \in Token /\ NoRequest \in UserRequestType /\ NoUser \in Found /\ Nothing \in Held
BY UsersAssumption
DEF NoToken, Token, NoRequest, UserRequestType, NoUser, Found, Nothing, Held, UserRow

LEMMA InitUsers == UserInit => UsersInv
<1> SUFFICES ASSUME UserInit PROVE UsersInv
  OBVIOUS
<1>1. BootInv /\ BootTypeOK
  BY InitBoot DEF UserInit, BootInv
<1>2. ServerTypeOK
  BY <1>1, Defaults, UsersAssumption DEF UserInit, ServerTypeOK, Step
<1>3. TableInv
  BY UsersAssumption DEF UserInit, TableInv
<1>4. ASSUME NEW c \in Client
      PROVE  RequestInv(c) /\ FreshId(c) /\ TokenInv(c)
  BY UsersAssumption
  DEF UserInit, RequestInv, FreshId, TokenInv, Tokens, Nothing, NoToken
<1> QED
  BY <1>1, <1>2, <1>3, <1>4 DEF UsersInv

\* Requests other than c's, when c's handler changes at most its own request
\* and what it has read.
LEMMA ReadersKeepUsers ==
  ASSUME UsersInv, NEW c \in Client,
         NEW label \in Step, label # "insert",
         NEW request \in UserRequestType, NEW user \in Found,
         server = "serving" \/ label = "idle",
         upc' = [upc EXCEPT ![c] = label],
         ureq' = [ureq EXCEPT ![c] = request],
         found' = [found EXCEPT ![c] = user],
         UNCHANGED <<bootVars, users, nextId, clock, held>>,
         label = "lookup" => request.op # "refresh",
         label \in {"validate", "find"} => request.token \in Tokens(c),
         label = "issue" /\ request.op = "refresh" => request.token \in Tokens(c),
         label = "issue" => Names(c, user.row.id, user.row.role, user.schema),
         label = "issue" => \A d \in Client : upc[d] = "insert" => user.row.id # ureq[d].id
  PROVE  UsersInv'
<1>1. BootInv' /\ BootTypeOK'
  BY DEF UsersInv, BootInv, BootTypeOK, bootVars
<1>2. ServerTypeOK'
  BY <1>1 DEF UsersInv, ServerTypeOK
<1>3. TableInv'
  BY DEF UsersInv, TableInv, bootVars
<1>4. upc[c] # "insert" \/ label # "insert"
  OBVIOUS
<1>5. /\ upc'[c] = label /\ ureq'[c] = request /\ found'[c] = user
      /\ \A d \in Client \ {c} : upc'[d] = upc[d] /\ ureq'[d] = ureq[d] /\ found'[d] = found[d]
  BY DEF UsersInv, ServerTypeOK
<1>6. ASSUME NEW d \in Client PROVE RequestInv(d)'
  <2>1. Tokens(d)' = Tokens(d)
    BY DEF Tokens
  <2> QED
    BY <1>5, <2>1 DEF UsersInv, RequestInv, bootVars
<1>7. ASSUME NEW d \in Client PROVE FreshId(d)'
  BY <1>5 DEF UsersInv, FreshId, Tokens
<1>8. \A d \in Client : \A id, role, epoch : Names(d, id, role, epoch)' <=> Names(d, id, role, epoch)
  BY DEF Names, bootVars
<1>9. ASSUME NEW d \in Client PROVE TokenInv(d)'
  BY <1>5, <1>8 DEF UsersInv, TokenInv, Tokens
<1> QED
  BY <1>1, <1>2, <1>3, <1>6, <1>7, <1>9 DEF UsersInv

LEMMA RefusalsKeepUsers ==
  ASSUME UsersInv, NEW c \in Client, RefuseRequest(c), UNCHANGED bootVars PROVE UsersInv'
<1>1. "idle" \in Step
  BY DEF Step
<1> QED
  BY <1>1, Defaults, ReadersKeepUsers DEF RefuseRequest, Done, GotoStep

LEMMA AskingKeepsUsers ==
  ASSUME UsersInv, NEW c \in Client, SignIn(c) \/ AskRefresh(c) \/ Call(c), UNCHANGED bootVars
  PROVE  UsersInv'
<1>1. found = [found EXCEPT ![c] = found[c]] /\ found[c] \in Found
  BY DEF UsersInv, ServerTypeOK
<1>2. {"lookup", "validate", "authorize"} \subseteq Step
  BY DEF Step
<1>3. ASSUME NEW label \in {"lookup", "validate", "authorize"}, NEW request \in UserRequestType,
             Ask(c, label, request), UNCHANGED nextId,
             label = "lookup" => request.op # "refresh",
             label = "validate" => request.token \in Tokens(c)
      PROVE  UsersInv'
  <2>1. /\ server = "serving" /\ upc' = [upc EXCEPT ![c] = label]
        /\ ureq' = [ureq EXCEPT ![c] = request] /\ found' = [found EXCEPT ![c] = found[c]]
        /\ UNCHANGED <<users, nextId, clock, held>>
    BY <1>1, <1>3 DEF Ask, GotoStep
  <2>2. label \in Step /\ label \notin {"insert", "find", "issue"}
    BY <1>2
  <2> QED
    BY <1>1, <1>3, <2>1, <2>2, ReadersKeepUsers
<1>4. ASSUME NEW op \in {"refresh", "call"}, NEW token \in Tokens(c)
      PROVE  /\ [NoRequest EXCEPT !.op = op, !.token = token] \in UserRequestType
             /\ [NoRequest EXCEPT !.op = op, !.token = token].token \in Tokens(c)
  <2>1. token \in Token
    BY DEF Tokens, UsersInv, ServerTypeOK, Held
  <2> QED
    BY <2>1, Defaults DEF NoRequest, UserRequestType
<1>5. CASE SignIn(c)
  <2>1. PICK email \in Email :
          Ask(c, "lookup", [NoRequest EXCEPT !.op = "login", !.email = email])
    BY <1>5 DEF SignIn
  <2> DEFINE request == [NoRequest EXCEPT !.op = "login", !.email = email]
  <2>2. request \in UserRequestType /\ request.op = "login"
    BY Defaults DEF NoRequest, UserRequestType
  <2>3. UNCHANGED nextId
    BY <1>5 DEF SignIn
  <2> QED
    BY <1>3, <2>1, <2>2, <2>3
<1>6. ASSUME NEW label \in {"validate", "authorize"}, NEW op \in {"refresh", "call"},
             Bearing(c, label, op)
      PROVE  UsersInv'
  <2>1. PICK token \in Tokens(c) : Ask(c, label, [NoRequest EXCEPT !.op = op, !.token = token])
    BY <1>6 DEF Bearing
  <2>2. UNCHANGED nextId
    BY <1>6 DEF Bearing
  <2> QED
    BY <1>3, <1>4, <2>1, <2>2
<1> QED
  BY <1>5, <1>6 DEF AskRefresh, Call

\* The steps that only move on: the tokens of a request that are still valid.
LEMMA TokenChecksKeepUsers ==
  ASSUME UsersInv, NEW c \in Client, ValidateRefresh(c) \/ AuthMiddleware(c),
         UNCHANGED bootVars
  PROVE  UsersInv'
<1>1. /\ found = [found EXCEPT ![c] = found[c]] /\ found[c] \in Found
      /\ ureq = [ureq EXCEPT ![c] = ureq[c]] /\ ureq[c] \in UserRequestType
  BY DEF UsersInv, ServerTypeOK
<1>2. {"find", "handle"} \subseteq Step
  BY DEF Step
<1>3. /\ server = "serving"
      /\ upc[c] = "validate" => ureq[c].token \in Tokens(c)
  BY DEF UsersInv, RequestInv, ValidateRefresh, AuthMiddleware
<1>4. CASE ValidateRefresh(c)
  BY <1>1, <1>2, <1>3, <1>4, ReadersKeepUsers DEF ValidateRefresh, GotoStep
<1>5. CASE AuthMiddleware(c)
  BY <1>1, <1>2, <1>3, <1>5, ReadersKeepUsers DEF AuthMiddleware, GotoStep
<1> QED
  BY <1>4, <1>5

\* A row found by its credentials or by the id in a token is the holder's.
LEMMA FindingKeepsUsers ==
  ASSUME UsersInv, NEW c \in Client, FindByEmail(c) \/ FindById(c), UNCHANGED bootVars
  PROVE  UsersInv'
<1>1. /\ ureq = [ureq EXCEPT ![c] = ureq[c]] /\ ureq[c] \in UserRequestType
      /\ resets \in Nat /\ upc[c] \in {"lookup", "find"} /\ "issue" \in Step
      /\ users \subseteq UserRow /\ nextId \in Nat /\ FirstId \in Nat
  BY StartupAssumption, UsersAssumption
  DEF UsersInv, ServerTypeOK, BootTypeOK, FindByEmail, FindById, Statement, Step
<1>2. /\ server = "serving"
      /\ upc[c] = "lookup" => ureq[c].op # "refresh"
      /\ upc[c] = "find" => ureq[c].token \in Tokens(c)
  BY <1>1 DEF UsersInv, RequestInv
<1>3. ASSUME NEW row \in users, row.password = c, Find(c, row),
             ureq[c].op = "refresh" => ureq[c].token \in Tokens(c)
      PROVE  UsersInv'
  <2> DEFINE user == [row |-> row, schema |-> resets]
  <2>1. user \in Found
    BY <1>1 DEF Found
  <2>2. user.row = row /\ user.schema = resets
    OBVIOUS
  <2>3. Names(c, row.id, row.role, resets)
    <3>1. row.id < nextId /\ (row.id < FirstId => row \in Seeds)
      BY DEF UsersInv, TableInv
    <3>2. \A other \in users : other.id = row.id => other = row
      BY DEF UsersInv, TableInv
    <3> QED
      BY <1>1, <1>3, <3>1, <3>2 DEF Names
  <2>4. \A d \in Client : upc[d] = "insert" => row.id # ureq[d].id
    BY DEF UsersInv, FreshId
  <2>5. /\ upc' = [upc EXCEPT ![c] = "issue"] /\ ureq' = [ureq EXCEPT ![c] = ureq[c]]
        /\ found' = [found EXCEPT ![c] = user] /\ UNCHANGED <<users, nextId, clock, held>>
    BY <1>1, <1>3 DEF Find, GotoStep
  <2> HIDE DEF user
  <2> QED
    BY <1>1, <1>2, <1>3, <2>1, <2>2, <2>3, <2>4, <2>5, ReadersKeepUsers
<1>4. CASE FindByEmail(c)
  <2>1. PICK row \in users : Credentials(c, row) /\ Find(c, row)
    BY <1>4 DEF FindByEmail
  <2>2. ureq[c].op # "refresh" /\ row.password = c
    BY <1>2, <1>4, <2>1 DEF FindByEmail, Statement, Credentials
  <2> QED
    BY <1>3, <2>1, <2>2
<1>5. CASE FindById(c)
  <2>1. PICK row \in users : row.id = ureq[c].token.id /\ Find(c, row)
    BY <1>5 DEF FindById
  <2>2. upc[c] = "find"
    BY <1>5 DEF FindById, Statement
  <2>3. ureq[c].token \in Tokens(c)
    BY <1>2, <2>2
  <2>4. row.password = c
    BY <2>1, <2>3 DEF UsersInv, TokenInv, Names
  <2> QED
    BY <1>3, <2>1, <2>3, <2>4
<1> QED
  BY <1>4, <1>5

\* Only the client that moves changes.
LEMMA RegisterKeepsUsers ==
  ASSUME UsersInv, NEW c \in Client, Register(c), UNCHANGED bootVars PROVE UsersInv'
<1>1. PICK asked \in Asked :
        Ask(c, "insert", [NoRequest EXCEPT !.op = "register", !.id = nextId,
                                           !.email = asked[1], !.role = asked[2]])
  BY DEF Register
<1>2. asked[1] \in Email /\ asked[2] \in Role
  BY UsersAssumption
<1> DEFINE request == [NoRequest EXCEPT !.op = "register", !.id = nextId,
                                        !.email = asked[1], !.role = asked[2]]
<1>3. nextId \in Nat /\ clock \in Nat /\ FirstId \in Nat
  BY UsersAssumption DEF UsersInv, ServerTypeOK
<1>4. request \in UserRequestType /\ request.op = "register" /\ request.id = nextId
  BY <1>2, <1>3, Defaults DEF NoRequest, UserRequestType
<1>5. /\ request.op = "register" /\ request.id = nextId
      /\ server = "serving" /\ nextId' = nextId + 1
      /\ upc' = [upc EXCEPT ![c] = "insert"] /\ ureq' = [ureq EXCEPT ![c] = request]
      /\ UNCHANGED <<users, clock, found, held>>
  BY <1>1, <1>4 DEF Ask, GotoStep, Register
<1> HIDE DEF request
<1>6. /\ upc'[c] = "insert" /\ ureq'[c] = request
      /\ \A d \in Client \ {c} : upc'[d] = upc[d] /\ ureq'[d] = ureq[d]
  BY <1>5 DEF UsersInv, ServerTypeOK
<1>7. BootInv' /\ BootTypeOK'
  BY DEF UsersInv, BootInv, BootTypeOK, bootVars
<1>8. ServerTypeOK'
  BY <1>3, <1>4, <1>5, <1>7 DEF UsersInv, ServerTypeOK, Step
<1>9. users \subseteq UserRow /\ \A row \in users : row.id \in Nat
  BY DEF UsersInv, ServerTypeOK, UserRow
<1>10. TableInv'
  BY <1>3, <1>5, <1>9 DEF UsersInv, TableInv, bootVars
<1>11. ASSUME NEW d \in Client, NEW id \in Nat, NEW role, NEW epoch, Names(d, id, role, epoch)
       PROVE  Names(d, id, role, epoch)' /\ id < nextId
  BY <1>3, <1>5, <1>11 DEF Names, bootVars
<1>12. ASSUME NEW d \in Client
       PROVE  /\ \A token \in Tokens(d) : token.id \in Nat
              /\ found[d].row.id \in Nat /\ ureq[d].id \in Nat
  BY DEF UsersInv, ServerTypeOK, Tokens, Held, Token, Found, UserRow, UserRequestType
<1>13. ASSUME NEW d \in Client
       PROVE  /\ \A token \in Tokens(d) : token.id < nextId
              /\ upc[d] = "issue" => found[d].row.id < nextId
              /\ upc[d] = "insert" => ureq[d].id < nextId
  BY <1>11, <1>12 DEF UsersInv, TokenInv, FreshId
<1>14. ASSUME NEW d \in Client PROVE RequestInv(d)'
  <2>1. Tokens(d)' = Tokens(d)
    BY <1>5 DEF Tokens
  <2> QED
    BY <1>5, <1>6, <2>1 DEF UsersInv, RequestInv, bootVars
<1>15. \A row \in users : row.id < nextId
  BY DEF UsersInv, TableInv
<1>16. nextId >= FirstId
  BY DEF UsersInv, TableInv
<1>17. FreshId(c)'
  <2> SUFFICES ASSUME NEW d \in Client
               PROVE  /\ d # c /\ upc'[d] = "insert" => ureq'[d].id # nextId
                      /\ upc'[d] = "issue" => found'[d].row.id # nextId
                      /\ \A token \in Tokens(d)' : token.id # nextId
    BY <1>3, <1>5, <1>6, <1>9, <1>15, <1>16 DEF FreshId
  <2>1. Tokens(d)' = Tokens(d)
    BY <1>5 DEF Tokens
  <2> QED
    BY <1>3, <1>5, <1>6, <1>12, <1>13, <2>1
<1>18. ASSUME NEW d \in Client, d # c PROVE FreshId(d)'
  <2> SUFFICES ASSUME upc[d] = "insert" PROVE FreshId(d)'
    BY <1>6, <1>18 DEF FreshId
  <2>1. ureq[d].id # nextId /\ ureq[d].id < nextId + 1
    BY <1>3, <1>12, <1>13
  <2>2. \A other \in Client : Tokens(other)' = Tokens(other)
    BY <1>5 DEF Tokens
  <2> QED
    BY <1>5, <1>6, <1>18, <2>1, <2>2 DEF UsersInv, FreshId
<1>19. ASSUME NEW d \in Client PROVE TokenInv(d)'
  <2>1. Tokens(d)' = Tokens(d) /\ found'[d] = found[d]
    BY <1>5 DEF Tokens
  <2>2. \A token \in Tokens(d) : Names(d, token.id, token.role, token.schema)'
    BY <1>11, <1>12 DEF UsersInv, TokenInv
  <2>3. ASSUME upc[d] = "issue"
        PROVE  Names(d, found[d].row.id, found[d].row.role, found[d].schema)'
    <3>1. Names(d, found[d].row.id, found[d].row.role, found[d].schema)
      BY <2>3 DEF UsersInv, TokenInv
    <3>2. found[d].row.id < nextId' /\ found' = found /\ users' = users /\ resets' = resets
      BY <1>3, <1>5, <1>12, <1>13, <2>3 DEF bootVars
    <3> QED
      BY <3>1, <3>2 DEF Names
  <2>4. upc'[d] = "issue" => upc[d] = "issue"
    BY <1>6
  <2> QED
    BY <2>1, <2>2, <2>3, <2>4, <1>5 DEF TokenInv, Names, bootVars
<1> QED
  BY <1>7, <1>8, <1>10, <1>14, <1>17, <1>18, <1>19 DEF UsersInv

\* A new row is nobody else's.
LEMMA InsertKeepsUsers ==
  ASSUME UsersInv, NEW c \in Client, InsertUser(c), UNCHANGED bootVars PROVE UsersInv'
<1> DEFINE new == [id |-> ureq[c].id, email |-> ureq[c].email, password |-> c,
                   role |-> ureq[c].role]
<1>1. /\ upc[c] = "insert" /\ schema = 1..Last /\ users' = users \cup {new}
      /\ upc' = [upc EXCEPT ![c] = "lookup"] /\ UNCHANGED <<nextId, clock, ureq, found, held>>
  BY DEF InsertUser, Statement, TablesThere, GotoStep
<1>2. ureq[c] \in UserRequestType /\ ureq[c].id \in Nat
  BY DEF UsersInv, ServerTypeOK, UserRequestType
<1>3. new \in UserRow
  BY <1>2 DEF UserRequestType, UserRow
<1>4. new.id = ureq[c].id
  OBVIOUS
<1> HIDE DEF new
<1>5. upc'[c] = "lookup" /\ \A d \in Client \ {c} : upc'[d] = upc[d]
  BY <1>1 DEF UsersInv, ServerTypeOK
<1>6. BootInv' /\ BootTypeOK'
  BY DEF UsersInv, BootInv, BootTypeOK, bootVars
<1>7. ServerTypeOK'
  BY <1>1, <1>3, <1>6 DEF UsersInv, ServerTypeOK, Step
<1>8. FreshId(c)
  BY DEF UsersInv
<1>9. TableInv'
  <2>1. Last \in schema
    BY <1>1, StartupAssumption
  <2>2. ~(new.id < FirstId) /\ new.id < nextId
    BY <1>1, <1>2, <1>4, <1>8, UsersAssumption DEF FreshId
  <2>3. \A row \in users : row.id # new.id
    BY <1>1, <1>4, <1>8 DEF FreshId
  <2>4. TableInv
    BY DEF UsersInv
  <2> QED
    BY <1>1, <2>1, <2>2, <2>3, <2>4 DEF TableInv, bootVars
<1>10. ASSUME NEW d \in Client PROVE RequestInv(d)'
  <2>1. ureq[c].op = "register" /\ RequestInv(d)
    BY <1>1 DEF UsersInv, RequestInv
  <2>2. RequestInv(c)
    BY DEF UsersInv
  <2>3. Tokens(d)' = Tokens(d)
    BY <1>1 DEF Tokens
  <2> QED
    BY <1>1, <1>5, <2>1, <2>2, <2>3 DEF RequestInv, bootVars
<1>11. ASSUME NEW d \in Client PROVE FreshId(d)'
  <2> SUFFICES ASSUME d # c, upc[d] = "insert" PROVE FreshId(d)'
    BY <1>5 DEF FreshId
  <2>1. FreshId(d) /\ ureq[d].id # new.id
    BY <1>1, <1>4, <1>8 DEF UsersInv, FreshId
  <2>2. \A other \in Client : Tokens(other)' = Tokens(other)
    BY <1>1 DEF Tokens
  <2> QED
    BY <1>1, <1>5, <2>1, <2>2 DEF FreshId
<1>12. ASSUME NEW d \in Client, NEW id, id # new.id, NEW role, NEW epoch,
              Names(d, id, role, epoch)
       PROVE  Names(d, id, role, epoch)'
  BY <1>1, <1>12 DEF Names, bootVars
<1>13. ASSUME NEW d \in Client PROVE TokenInv(d)'
  <2>1. Tokens(d)' = Tokens(d) /\ TokenInv(d)
    BY <1>1 DEF Tokens, UsersInv
  <2>2. ASSUME NEW token \in Tokens(d) PROVE Names(d, token.id, token.role, token.schema)'
    BY <1>1, <1>4, <1>8, <1>12, <2>1 DEF TokenInv, FreshId
  <2>3. ASSUME upc'[d] = "issue"
        PROVE  Names(d, found[d].row.id, found[d].row.role, found[d].schema)'
    <3>1. /\ Names(d, found[d].row.id, found[d].row.role, found[d].schema)
          /\ found[d].row.id # new.id
      BY <1>1, <1>4, <1>5, <1>8, <2>1, <2>3 DEF TokenInv, FreshId
    <3> QED
      BY <1>1, <3>1 DEF Names, bootVars
  <2> QED
    BY <2>1, <2>2, <2>3 DEF TokenInv
<1> QED
  BY <1>6, <1>7, <1>9, <1>10, <1>11, <1>13 DEF UsersInv

\* The tokens are for the row that was found.
LEMMA IssuingKeepsUsers ==
  ASSUME UsersInv, NEW c \in Client, IssueTokens(c), UNCHANGED bootVars PROVE UsersInv'
<1> DEFINE access == Signed(found[c], AccessTTL)
           refresh == Signed(found[c], RefreshTTL)
           got == IF ureq[c].op = "refresh" THEN Refreshed(c) ELSE LoggedIn(c)
<1>1. /\ upc[c] = "issue" /\ held' = [held EXCEPT ![c] = got]
      /\ upc' = [upc EXCEPT ![c] = "idle"] /\ ureq' = [ureq EXCEPT ![c] = NoRequest]
      /\ found' = [found EXCEPT ![c] = NoUser] /\ UNCHANGED <<users, nextId, clock>>
  BY DEF IssueTokens, Done, GotoStep
<1>2. /\ clock \in Nat /\ AccessTTL \in Nat /\ RefreshTTL \in Nat
      /\ held[c] \in Held /\ found[c] \in Found
  BY UsersAssumption DEF UsersInv, ServerTypeOK
<1>3. access \in Token /\ refresh \in Token
  BY <1>2 DEF Signed, Found, UserRow, Token
<1>4. got.access = access /\ (got.refresh = refresh \/ got.refresh \in Tokens(c))
  BY <1>1 DEF Refreshed, LoggedIn, UsersInv, RequestInv
<1>5. got \in Held
  <2>1. Tokens(c) \subseteq Token
    BY <1>2 DEF Tokens, Held
  <2> QED
    BY <1>3, <1>4, <2>1 DEF Refreshed, LoggedIn, Held
<1>6. \A token \in {access, refresh} :
        token.id = found[c].row.id /\ token.role = found[c].row.role
        /\ token.schema = found[c].schema
  BY DEF Signed
<1> HIDE DEF access, refresh, got
<1>7. /\ upc'[c] = "idle" /\ held'[c] = got
      /\ \A d \in Client \ {c} :
           upc'[d] = upc[d] /\ ureq'[d] = ureq[d] /\ found'[d] = found[d] /\ held'[d] = held[d]
  BY <1>1 DEF UsersInv, ServerTypeOK
<1>8. BootInv' /\ BootTypeOK'
  BY DEF UsersInv, BootInv, BootTypeOK, bootVars
<1>9. ServerTypeOK'
  BY <1>1, <1>5, <1>8, Defaults DEF UsersInv, ServerTypeOK, Step
<1>10. TableInv'
  BY <1>1 DEF UsersInv, TableInv, bootVars
<1>11. /\ \A d \in Client \ {c} : Tokens(d)' = Tokens(d)
       /\ Tokens(c)' \subseteq Tokens(c) \cup {access, refresh}
  BY <1>4, <1>7 DEF Tokens
<1>12. ASSUME NEW d \in Client PROVE RequestInv(d)'
  <2>1. CASE d = c
    BY <1>7, <2>1 DEF UsersInv, RequestInv
  <2>2. CASE d # c
    BY <1>7, <1>11, <2>2 DEF UsersInv, RequestInv, bootVars
  <2> QED
    BY <2>1, <2>2
<1>13. ASSUME NEW d \in Client PROVE FreshId(d)'
  <2> SUFFICES ASSUME d # c, upc[d] = "insert" PROVE FreshId(d)'
    BY <1>7 DEF FreshId
  <2>1. FreshId(d)
    BY DEF UsersInv
  <2>2. \A token \in Tokens(c)' : token.id # ureq[d].id
    BY <1>1, <1>6, <1>11, <2>1 DEF FreshId
  <2>3. \A other \in Client \ {c} : \A token \in Tokens(other)' : token.id # ureq[d].id
    BY <1>11, <2>1 DEF FreshId
  <2> QED
    BY <1>1, <1>7, <2>1, <2>2, <2>3 DEF FreshId
<1>14. ASSUME NEW d \in Client PROVE TokenInv(d)'
  <2>1. ASSUME NEW token \in Tokens(d)' PROVE Names(d, token.id, token.role, token.schema)
    BY <1>1, <1>6, <1>11 DEF UsersInv, TokenInv
  <2>2. ASSUME NEW token \in Tokens(d)' PROVE Names(d, token.id, token.role, token.schema)'
    BY <1>1, <2>1 DEF Names, bootVars
  <2>3. ASSUME upc'[d] = "issue"
        PROVE  Names(d, found[d].row.id, found[d].row.role, found[d].schema)'
    BY <1>1, <1>7, <2>3 DEF UsersInv, TokenInv, Names, bootVars
  <2> QED
    BY <2>2, <2>3 DEF TokenInv
<1> QED
  BY <1>8, <1>9, <1>10, <1>12, <1>13, <1>14 DEF UsersInv

-----------------------------------------------------------------------------
(* The server and its environment. *)

\* Requests stay where they are while the server's own life goes on.
LEMMA ServerKeepsUsers ==
  ASSUME UsersInv, BootInv', UNCHANGED <<schema, resets, userVars>>,
         server' # "serving" => server # "serving"
  PROVE  UsersInv'
<1>1. ServerTypeOK'
  BY DEF UsersInv, BootInv, ServerTypeOK, userVars
<1>2. TableInv'
  BY DEF UsersInv, TableInv, userVars
<1>3. ASSUME NEW c \in Client PROVE RequestInv(c)'
  BY DEF UsersInv, RequestInv, Tokens, userVars
<1>4. ASSUME NEW c \in Client PROVE FreshId(c)'
  BY DEF UsersInv, FreshId, Tokens, userVars
<1>5. ASSUME NEW c \in Client PROVE TokenInv(c)'
  BY DEF UsersInv, TokenInv, Names, Tokens, userVars
<1> QED
  BY <1>1, <1>2, <1>3, <1>4, <1>5 DEF UsersInv

\* No handler runs: nothing to say of the requests.
LEMMA IdleKeepsUsers ==
  ASSUME \A c \in Client : upc'[c] = "idle"
  PROVE  \A c \in Client : RequestInv(c)' /\ FreshId(c)'
BY DEF RequestInv, FreshId

\* The sample users come back with the ids, passwords and roles they had.
LEMMA SeedingKeepsUsers ==
  ASSUME UsersInv, SeedUsers PROVE UsersInv'
<1>1. /\ server = "run" /\ schema' = schema \cup {version} /\ UNCHANGED <<version, resets>>
      /\ UNCHANGED <<nextId, clock, upc, ureq, found, held>>
      /\ users' = IF version = Last THEN users \cup Sample ELSE users
  BY DEF SeedUsers, RunMigration
<1>2. BootInv' /\ BootTypeOK'
  BY RunKeepsBoot DEF UsersInv, SeedUsers, BootInv
<1>3. schema = 1..(version - 1) /\ version \in 1..Last /\ Last \in Nat
  BY <1>1, StartupAssumption DEF UsersInv, BootInv, BootTypeOK
<1>4. users = {}
  BY <1>3 DEF UsersInv, TableInv
<1>5. users' \subseteq Seeds /\ (Last \notin schema' => users' = {})
  BY <1>1, <1>3, <1>4 DEF Sample
<1>6. \A row \in Seeds : row \in UserRow /\ row.id < FirstId /\ row.id \in Nat
  BY UsersAssumption DEF UserRow
<1>7. ServerTypeOK'
  BY <1>1, <1>2, <1>5, <1>6 DEF UsersInv, ServerTypeOK
<1>8. TableInv'
  <2>1. nextId \in Nat /\ FirstId \in Nat /\ nextId >= FirstId
    BY UsersAssumption DEF UsersInv, ServerTypeOK, TableInv
  <2>2. \A row \in Seeds : row.id < nextId
    BY <1>6, <2>1
  <2> QED
    BY <1>1, <1>5, <2>1, <2>2, UsersAssumption DEF TableInv
<1>9. \A c \in Client : upc'[c] = "idle"
  BY <1>1 DEF UsersInv, RequestInv
<1>10. ASSUME NEW c \in Client, NEW token \in Tokens(c)
       PROVE  Names(c, token.id, token.role, token.schema)'
  <2>1. Names(c, token.id, token.role, token.schema)
    BY DEF UsersInv, TokenInv
  <2>2. token.schema # resets
    BY <1>4, <2>1 DEF Names
  <2>3. ASSUME NEW row \in users', row.id = token.id
        PROVE  row.password = c /\ row.role = token.role
    <3>1. row \in Seeds /\ token.id < FirstId
      BY <1>5, <1>6, <2>3
    <3>2. PICK seed \in Seeds : seed.id = token.id /\ seed.password = c /\ seed.role = token.role
      BY <2>1, <3>1 DEF Names
    <3> QED
      BY <2>3, <3>1, <3>2, UsersAssumption
  <2> QED
    BY <1>1, <2>1, <2>2, <2>3 DEF Names
<1>11. ASSUME NEW c \in Client PROVE TokenInv(c)'
  <2>1. Tokens(c)' = Tokens(c)
    BY <1>1 DEF Tokens
  <2> QED
    BY <1>9, <1>10, <2>1 DEF TokenInv
<1> QED
  BY <1>1, <1>2, <1>7, <1>8, <1>9, <1>11, IdleKeepsUsers DEF UsersInv

\* A crash ends the requests and leaves the tokens.
LEMMA CuttingOffKeepsUsers ==
  ASSUME UsersInv, CutOff PROVE UsersInv'
<1>1. /\ UNCHANGED <<schema, resets, users, nextId, clock, held>>
      /\ upc' = [c \in Client |-> "idle"] /\ ureq' = [c \in Client |-> NoRequest]
      /\ found' = [c \in Client |-> NoUser]
  BY DEF CutOff, ServerCrash, migrations
<1>2. BootInv' /\ BootTypeOK'
  BY EnvironmentKeepsBoot DEF UsersInv, CutOff, BootInv
<1>3. ServerTypeOK'
  BY <1>1, <1>2, Defaults DEF UsersInv, ServerTypeOK, Step
<1>4. TableInv'
  BY <1>1 DEF UsersInv, TableInv
<1>5. ASSUME NEW c \in Client PROVE TokenInv(c)'
  BY <1>1 DEF UsersInv, TokenInv, Names, Tokens
<1> QED
  BY <1>1, <1>2, <1>3, <1>4, <1>5, IdleKeepsUsers DEF UsersInv

\* No token names a row of the schema that is to come.
LEMMA DroppingKeepsUsers ==
  ASSUME UsersInv, DropUsers PROVE UsersInv'
<1>1. /\ users' = {} /\ schema' = {} /\ resets' = resets + 1 /\ server' = server
      /\ UNCHANGED <<nextId, clock, upc, ureq, found, held>>
  BY DEF DropUsers, Reset
<1>2. BootInv' /\ BootTypeOK'
  BY EnvironmentKeepsBoot DEF UsersInv, DropUsers, BootInv
<1>3. ServerTypeOK'
  BY <1>1, <1>2 DEF UsersInv, ServerTypeOK
<1>4. TableInv'
  BY <1>1 DEF UsersInv, TableInv
<1>5. resets \in Nat
  BY StartupAssumption DEF UsersInv, ServerTypeOK, BootTypeOK
<1>6. ASSUME NEW c \in Client PROVE RequestInv(c)'
  BY <1>1 DEF UsersInv, RequestInv, Tokens
<1>7. ASSUME NEW c \in Client PROVE FreshId(c)'
  <2>1. \A d \in Client : Tokens(d)' = Tokens(d)
    BY <1>1 DEF Tokens
  <2> QED
    BY <1>1, <2>1 DEF UsersInv, FreshId
<1>8. ASSUME NEW c \in Client PROVE TokenInv(c)'
  <2>1. Tokens(c)' = Tokens(c) /\ TokenInv(c)
    BY <1>1 DEF Tokens, UsersInv
  <2>2. ASSUME NEW token \in Tokens(c) PROVE Names(c, token.id, token.role, token.schema)'
    <3>1. Names(c, token.id, token.role, token.schema) /\ token.schema \in Nat
      BY <2>1 DEF TokenInv, UsersInv, ServerTypeOK, Tokens, Held, Token
    <3> QED
      BY <1>1, <1>5, <3>1 DEF Names
  <2>3. ASSUME upc[c] = "issue"
        PROVE  Names(c, found[c].row.id, found[c].row.role, found[c].schema)'
    <3>1. /\ Names(c, found[c].row.id, found[c].row.role, found[c].schema)
          /\ found[c].schema \in Nat
      BY <2>1, <2>3 DEF TokenInv, UsersInv, ServerTypeOK, Found
    <3> QED
      BY <1>1, <1>5, <3>1 DEF Names
  <2> QED
    BY <1>1, <2>1, <2>2, <2>3 DEF TokenInv
<1> QED
  BY <1>2, <1>3, <1>4, <1>6, <1>7, <1>8 DEF UsersInv

LEMMA TickKeepsUsers ==
  ASSUME UsersInv, Tick PROVE UsersInv'
<1>1. /\ clock' = clock + 1 /\ UNCHANGED <<bootVars, users, nextId, upc, ureq, found, held>>
  BY DEF Tick
<1>2. BootInv' /\ BootTypeOK'
  BY <1>1 DEF UsersInv, BootInv, BootTypeOK, bootVars
<1>3. clock \in Nat
  BY DEF UsersInv, ServerTypeOK
<1>4. ServerTypeOK'
  BY <1>1, <1>2, <1>3 DEF UsersInv, ServerTypeOK
<1>5. TableInv'
  BY <1>1 DEF UsersInv, TableInv, bootVars
<1>6. ASSUME NEW c \in Client PROVE RequestInv(c)'
  BY <1>1 DEF UsersInv, RequestInv, Tokens, bootVars
<1>7. ASSUME NEW c \in Client PROVE FreshId(c)'
  BY <1>1 DEF UsersInv, FreshId, Tokens
<1>8. ASSUME NEW c \in Client PROVE TokenInv(c)'
  BY <1>1 DEF UsersInv, TokenInv, Names, Tokens, bootVars
<1> QED
  BY <1>2, <1>4, <1>5, <1>6, <1>7, <1>8 DEF UsersInv

-----------------------------------------------------------------------------
LEMMA NextUsers ==
  ASSUME UsersInv, [ServerNext]_serverVars PROVE UsersInv'
<1>1. BootInv'
  BY NextBoot DEF UsersInv
<1>2. CASE UNCHANGED serverVars
  BY <1>1, <1>2, ServerKeepsUsers DEF serverVars, bootVars
<1>3. CASE StartStep /\ UNCHANGED userVars
  <2>1. UNCHANGED <<schema, resets>> /\ server # "serving"
    BY <1>3 DEF StartStep, Boot, Connect, ConnectFails, ReadVersion, RefuseDirty, MarkDirty,
         ClearDirty, MigrateFails, migrations
  <2> QED
    BY <1>1, <1>3, <2>1, ServerKeepsUsers
<1>4. CASE (DbUp \/ DbDown \/ MigrationFails) /\ UNCHANGED userVars
  <2>1. UNCHANGED <<schema, resets>> /\ (server' # "serving" => server # "serving")
    BY <1>4 DEF DbUp, DbDown, MigrationFails, migrations
  <2> QED
    BY <1>1, <1>4, <2>1, ServerKeepsUsers
<1>5. CASE SeedUsers \/ CutOff \/ DropUsers \/ Tick
  BY <1>5, SeedingKeepsUsers, CuttingOffKeepsUsers, DroppingKeepsUsers, TickKeepsUsers
<1>6. ASSUME NEW c \in Client, UserRequest(c) PROVE UsersInv'
  <2>1. UNCHANGED bootVars
    BY <1>6 DEF UserRequest
  <2>2. CASE Begin(c)
    BY <2>1, <2>2, RegisterKeepsUsers, AskingKeepsUsers DEF Begin
  <2>3. CASE RefuseRequest(c)
    BY <2>1, <2>3, RefusalsKeepUsers
  <2>4. CASE InsertUser(c) \/ IssueTokens(c)
    BY <2>1, <2>4, InsertKeepsUsers, IssuingKeepsUsers
  <2>5. CASE FindByEmail(c) \/ FindById(c)
    BY <2>1, <2>5, FindingKeepsUsers
  <2>6. CASE ValidateRefresh(c) \/ AuthMiddleware(c)
    BY <2>1, <2>6, TokenChecksKeepUsers
  <2>7. Proceed(c) =>
          \/ RefuseRequest(c) \/ InsertUser(c) \/ IssueTokens(c) \/ FindByEmail(c)
          \/ FindById(c) \/ ValidateRefresh(c) \/ AuthMiddleware(c)
    BY DEF Proceed, RefuseEmail, RefuseCredentials, RefuseUser, StatementFails,
         RefuseToken, Handle
  <2> QED
    BY <1>6, <2>2, <2>3, <2>4, <2>5, <2>6, <2>7 DEF UserRequest
<1> QED
  BY <1>2, <1>3, <1>4, <1>5, <1>6 DEF ServerNext, BringUp, Surroundings

LEMMA UsersInvariant == ServerSpec => []UsersInv
BY InitUsers, NextUsers, PTL DEF ServerSpec

\* Users, requests and tokens always have their type, and connectWithRetry gives
\* up after its last attempt.
THEOREM ServerTypeCorrect == ServerSpec => []ServerTypeOK
<1>1. UsersInv => ServerTypeOK
  BY DEF UsersInv
<1> QED
  BY <1>1, UsersInvariant, PTL

\* A token always names the user it was issued for, in the role that user has,
\* whatever has become of the server and of the schema since.
THEOREM TokensTrue == ServerSpec => []TokensNameUsers
<1>1. UsersInv => TokensNameUsers
  BY DEF UsersInv, TokenInv, Names, TokensNameUsers
<1> QED
  BY <1>1, UsersInvariant, PTL
=============================================================================
