------------------------------- MODULE Users -------------------------------
(***************************************************************************)
(* Users and their tokens (internal/users, internal/middleware/auth.go),   *)
(* on a server that starts, crashes and is reset (Startup).                *)
(*                                                                         *)
(* A client is one person's connection.  A token is not stored anywhere: a *)
(* restart invalidates none, and dropping the schema neither.  Nothing in  *)
(* a token tells access from refresh: a client sends either of the two it  *)
(* holds wherever a token is asked for.                                    *)
(*                                                                         *)
(* Nothing bounds the time a request takes.  Its statements wait for one   *)
(* of the connections it shares with the requests of Orders, so that the   *)
(* clock moves between any two steps and no request is assumed to end.     *)
(***************************************************************************)
EXTENDS Startup

CONSTANTS
  Client,      \* each has a password of its own
  Email,
  Role,
  Asked,       \* bound: the addresses and roles clients register with
  Seeds,       \* the sample users of the last migration
  FirstId, LastId,  \* bound: the ids uuid.New gives
  AccessTTL, RefreshTTL,
  MaxClock     \* bound on the clock

NoPassword == "none"
UserRow == [id : Nat, email : Email, password : Client \cup {NoPassword}, role : Role]

ASSUME UsersAssumption ==
  /\ NoPassword \notin Client /\ Asked \subseteq Email \X Role /\ Role # {} /\ Email # {}
  /\ Seeds \subseteq {row \in UserRow : row.id < FirstId}
  /\ \A a, b \in Seeds : a.id = b.id \/ a.email = b.email => a = b
  /\ FirstId \in Nat /\ LastId \in Nat
  /\ AccessTTL \in Nat \ {0} /\ RefreshTTL \in Nat \ {0} /\ MaxClock \in Nat

VARIABLES
  users,    \* the table
  nextId,   \* uuid.New
  clock,    \* time.Now
  upc,      \* the step the handler serving a client is at
  ureq,     \* the request, and the token it came with
  found,    \* the row the handler has read, and after how many resets
  held      \* the answer a client got last: its tokens

userVars == <<users, nextId, clock, upc, ureq, found, held>>
serverVars == <<bootVars, userVars>>

\* The claims of a token.  schema, the number of resets when the user was read,
\* is not among them.
Token == [id : Nat, role : Role, exp : Nat, schema : Nat]
NoToken == [id |-> 0, role |-> CHOOSE role \in Role : TRUE, exp |-> 0, schema |-> 0]

NoRequest == [op |-> "none", id |-> 0, email |-> CHOOSE email \in Email : TRUE,
              role |-> CHOOSE role \in Role : TRUE, token |-> NoToken]
NoUser == [row |-> [id |-> 0, email |-> CHOOSE email \in Email : TRUE,
                    password |-> NoPassword, role |-> CHOOSE role \in Role : TRUE],
           schema |-> 0]
Nothing == [access |-> NoToken, refresh |-> NoToken]

UserInit ==
  /\ BootInit
  /\ users = {} /\ nextId = FirstId /\ clock = 0
  /\ upc = [c \in Client |-> "idle"]
  /\ ureq = [c \in Client |-> NoRequest]
  /\ found = [c \in Client |-> NoUser]
  /\ held = [c \in Client |-> Nothing]

-----------------------------------------------------------------------------
(* Requests. *)

GotoStep(c, label) == upc' = [upc EXCEPT ![c] = label]

Ask(c, label, request) ==
  /\ server = "serving" /\ upc[c] = "idle"
  /\ ureq' = [ureq EXCEPT ![c] = request]
  /\ GotoStep(c, label)
  /\ UNCHANGED <<users, clock, found, held>>

\* POST /auth/register: the id is made before the INSERT.
Register(c) ==
  /\ nextId <= LastId /\ nextId' = nextId + 1
  /\ \E asked \in Asked :
       Ask(c, "insert", [NoRequest EXCEPT !.op = "register", !.id = nextId,
                                          !.email = asked[1], !.role = asked[2]])

\* POST /auth/login
SignIn(c) ==
  /\ \E email \in Email :
       Ask(c, "lookup", [NoRequest EXCEPT !.op = "login", !.email = email])
  /\ UNCHANGED nextId

Tokens(c) == {held[c].access, held[c].refresh} \ {NoToken}

Bearing(c, label, op) ==
  /\ \E token \in Tokens(c) :
       Ask(c, label, [NoRequest EXCEPT !.op = op, !.token = token])
  /\ UNCHANGED nextId

\* POST /auth/refresh
AskRefresh(c) == Bearing(c, "validate", "refresh")

\* Any request of /orders, /promo-codes, or to write /products.
Call(c) == Bearing(c, "authorize", "call")

\* The answer, with or without an error, ends the request.
Done(c) ==
  /\ GotoStep(c, "idle")
  /\ ureq' = [ureq EXCEPT ![c] = NoRequest]
  /\ found' = [found EXCEPT ![c] = NoUser]
  /\ UNCHANGED <<nextId, clock>>

RefuseRequest(c) == Done(c) /\ UNCHANGED <<users, held>>

-----------------------------------------------------------------------------
(* Statements. *)

TablesThere == db = "up" /\ schema = 1..Last

Statement(c, label) == upc[c] = label /\ TablesThere

\* UNIQUE (email)
Taken(email) == \E row \in users : row.email = email

InsertUser(c) ==
  /\ Statement(c, "insert") /\ ~Taken(ureq[c].email)
  /\ users' = users \cup {[id |-> ureq[c].id, email |-> ureq[c].email,
                           password |-> c, role |-> ureq[c].role]}
  /\ GotoStep(c, "lookup")
  /\ UNCHANGED <<nextId, clock, ureq, found, held>>

RefuseEmail(c) ==
  /\ Statement(c, "insert") /\ Taken(ureq[c].email)
  /\ RefuseRequest(c)

\* The row is kept until the token is signed.
Find(c, row) ==
  /\ found' = [found EXCEPT ![c] = [row |-> row, schema |-> resets]]
  /\ GotoStep(c, "issue")
  /\ UNCHANGED <<users, nextId, clock, ureq, held>>

Credentials(c, row) == row.email = ureq[c].email /\ row.password = c

\* Login: GetByEmail and the comparison with the password.
FindByEmail(c) ==
  /\ Statement(c, "lookup")
  /\ \E row \in users : Credentials(c, row) /\ Find(c, row)

RefuseCredentials(c) ==
  /\ Statement(c, "lookup")
  /\ \A row \in users : ~Credentials(c, row)
  /\ RefuseRequest(c)

\* Mutant: RefreshToken takes the user from the claims.
FindInClaims(c) ==
  /\ Statement(c, "find")
  /\ Find(c, [id |-> ureq[c].token.id, email |-> ureq[c].email,
              password |-> c, role |-> ureq[c].token.role])

\* RefreshToken: GetByID.
FindById(c) ==
  /\ Statement(c, "find")
  /\ \E row \in users : row.id = ureq[c].token.id /\ Find(c, row)

RefuseUser(c) ==
  /\ Statement(c, "find")
  /\ \A row \in users : row.id # ureq[c].token.id
  /\ RefuseRequest(c)

\* Any statement can return an error; without the database, or the table, it
\* must.
StatementFails(c) ==
  /\ upc[c] \in {"insert", "lookup", "find"}
  /\ RefuseRequest(c)

-----------------------------------------------------------------------------
(* Tokens. *)

Signed(user, ttl) ==
  [id |-> user.row.id, role |-> user.row.role, exp |-> clock + ttl, schema |-> user.schema]

\* The answer to a refresh holds the token that was sent.
Refreshed(c) ==
  [access |-> Signed(found[c], AccessTTL), refresh |-> ureq[c].token]

LoggedIn(c) ==
  [access |-> Signed(found[c], AccessTTL), refresh |-> Signed(found[c], RefreshTTL)]

IssueTokens(c) ==
  /\ upc[c] = "issue"
  /\ held' = [held EXCEPT ![c] = IF ureq[c].op = "refresh" THEN Refreshed(c) ELSE LoggedIn(c)]
  /\ Done(c)
  /\ UNCHANGED users

\* validateToken: exp is in the future.
Unexpired(token) == clock < token.exp

ValidateRefresh(c) ==
  /\ upc[c] = "validate" /\ Unexpired(ureq[c].token)
  /\ GotoStep(c, "find")
  /\ UNCHANGED <<users, nextId, clock, ureq, found, held>>

\* AuthMiddleware puts the claims in the context of the request.
AuthMiddleware(c) ==
  /\ upc[c] = "authorize" /\ Unexpired(ureq[c].token)
  /\ GotoStep(c, "handle")
  /\ UNCHANGED <<users, nextId, clock, ureq, found, held>>

RefuseToken(c) ==
  /\ upc[c] \in {"validate", "authorize"} /\ ~Unexpired(ureq[c].token)
  /\ RefuseRequest(c)

\* The answer of the handlers behind the middleware, Orders and Marketplace:
\* it may never come.
Handle(c) == upc[c] = "handle" /\ RefuseRequest(c)
-----------------------------------------------------------------------------
(* The server and its environment. *)

\* ON CONFLICT (email) DO NOTHING
Sample == {row \in Seeds : ~Taken(row.email)}

SeedUsers ==
  /\ RunMigration
  /\ users' = IF version = Last THEN users \cup Sample ELSE users
  /\ UNCHANGED <<nextId, clock, upc, ureq, found, held>>

BringUp == (StartStep /\ UNCHANGED userVars) \/ SeedUsers

\* The requests in progress end with the process; the tokens stay with the
\* clients.
CutOff ==
  /\ ServerCrash
  /\ upc' = [c \in Client |-> "idle"]
  /\ ureq' = [c \in Client |-> NoRequest]
  /\ found' = [c \in Client |-> NoUser]
  /\ UNCHANGED <<users, nextId, clock, held>>

DropUsers ==
  /\ Reset
  /\ users' = {}
  /\ UNCHANGED <<nextId, clock, upc, ureq, found, held>>

Tick ==
  /\ clock < MaxClock /\ clock' = clock + 1
  /\ UNCHANGED <<bootVars, users, nextId, upc, ureq, found, held>>

Surroundings ==
  \/ (DbUp \/ DbDown \/ MigrationFails) /\ UNCHANGED userVars
  \/ CutOff \/ DropUsers \/ Tick

Begin(c) == Register(c) \/ SignIn(c) \/ AskRefresh(c) \/ Call(c)

\* One step of the handler serving c.
Proceed(c) ==
  \/ InsertUser(c) \/ RefuseEmail(c)
  \/ FindByEmail(c) \/ RefuseCredentials(c)
  \/ FindById(c) \/ RefuseUser(c) \/ StatementFails(c)
  \/ IssueTokens(c)
  \/ ValidateRefresh(c) \/ AuthMiddleware(c) \/ RefuseToken(c) \/ Handle(c)

UserRequest(c) == (Begin(c) \/ Proceed(c)) /\ UNCHANGED bootVars

ServerNext ==
  \/ BringUp \/ Surroundings
  \/ \E c \in Client : UserRequest(c)

ServerSpec == UserInit /\ [][ServerNext]_serverVars

\* The process runs and docker restarts it; nothing is assumed of requests,
\* clients, failures and the operator.
FairServerSpec == ServerSpec /\ WF_serverVars(BringUp)

-----------------------------------------------------------------------------
(* Properties. *)

Step == {"idle", "insert", "lookup", "validate", "find", "issue", "authorize", "handle"}
UserRequestType ==
  [op : {"none", "register", "login", "refresh", "call"}, id : Nat, email : Email,
   role : Role, token : Token]
Found == [row : UserRow, schema : Nat]
Held == [access : Token, refresh : Token]

\* Every variable has its type; in particular connectWithRetry gives up in time.
ServerTypeOK ==
  /\ BootTypeOK
  /\ users \subseteq UserRow /\ nextId \in Nat /\ clock \in Nat
  /\ upc \in [Client -> Step]
  /\ ureq \in [Client -> UserRequestType]
  /\ found \in [Client -> Found]
  /\ held \in [Client -> Held]

\* A token names a user for whom its holder knows the password, with that user's
\* role: the row is there as long as nobody has dropped the schema since it was
\* read, through failed registrations, crashes and restarts, and no other row
\* ever gets its id.
TokensNameUsers ==
  \A c \in Client : \A token \in Tokens(c) :
    /\ token.schema = resets => \E row \in users : row.id = token.id
    /\ \A row \in users : row.id = token.id => row.password = c /\ row.role = token.role
=============================================================================
