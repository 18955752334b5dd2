------------------------------- MODULE Access -------------------------------
(***************************************************************************)
(* Who may call the server: the tokens it records, the policy document     *)
(* they are evaluated against, and the requests that read and change both  *)
(* a statement at a time, beside the sweep, workloads that mint and revoke *)
(* their own tokens, and a server that stops and comes up again, with or   *)
(* without the file that resets the recovery token.                        *)
(*                                                                         *)
(* A token's identifier is its place in rows, and stands for its           *)
(* credential too; what is no token of this server is presented as Alien.  *)
(* When a token was last used is left out.  Authentication is on: without  *)
(* it no request is refused.                                               *)
(***************************************************************************)
EXTENDS Integers, Sequences

CONSTANTS
  Clients,        \* callers, each with a browser's cookie and one request at a time
  Principals, Groups, NoPrincipal,
  Hosted,         \* the principals that workloads act as
  Documents,      \* the policies an operator may apply, valid ones
  Identities,     \* what an identity provider may assert of a caller
  TTL,            \* how long a token minted by a login lives
  Asked,          \* bound: the operations that clients ask for
  MaxTokens,      \* bound: tokens ever minted
  MaxApplies,     \* bound: applies that change the policy
  MaxTime         \* bound: what the clock reaches

VARIABLES
  rows,       \* every token ever minted, in order
  stored,     \* the identifiers of the ones the table holds
  time,
  policy,     \* the row of the policy, at version zero while there is none
  calls,      \* the request each client has in progress
  cookies,    \* the session cookie of each client's browser, zero when it has none
  reads,      \* the policy each client last read, with its tag
  server,     \* "down", "resetting" once the reset file has been acted on, or "up"
  resetFile,  \* whether the reset file lies in the data directory
  applied,    \* history: the documents written, in order
  armed       \* history: the reset file was written while this server was up

requests == <<calls, cookies, reads>>
table == <<rows, stored>>
document == <<policy, applied>>
host == <<server, resetFile, armed>>
accessVars == <<table, time, document, requests, host>>

Alien == -1
Recovery == "recovery"
Client == "client"

Named == Principals \cup {NoPrincipal}

\* A token.  One that expires at zero never does, and the root of a session is the token it was
\* exchanged for.
Token == [kind : {Recovery, Client}, source : {"init", "static", "oidc", "session", "workload"},
          principal : Named, groups : SUBSET Groups, expires : Nat, root : Nat]

\* Roles by rank, so that a greater one covers a lesser: viewer, operator, admin.
Grant == [role : 1..3, principals : SUBSET Principals, groups : SUBSET Groups]
Document == [claim : {"email", "sub"}, groupsClaim : BOOLEAN,
             members : [Groups -> SUBSET Principals], grants : SUBSET Grant]
Identity == [email : Named, sub : Named, groups : SUBSET Groups]

EmptyDocument == [claim |-> "email", groupsClaim |-> FALSE,
                  members |-> [g \in Groups |-> {}], grants |-> {}]

(***************************************************************************)
(* What a policy grants.                                                   *)
(***************************************************************************)
\* A grant names the principal, a group the identity provider asserted for it, or a group of the
\* policy that it is a member of.
Matches(doc, grant, principal, groups) ==
  \/ principal \in grant.principals
  \/ grant.groups \cap groups # {}
  \/ \E g \in grant.groups : principal \in doc.members[g]

Granted(doc, principal, groups) ==
  {g.role : g \in {h \in doc.grants : Matches(doc, h, principal, groups)}}

\* The highest role of the grants that match, zero when none does.
Evaluate(doc, principal, groups) ==
  CHOOSE r \in 0..3 :
    /\ r \in {0} \cup Granted(doc, principal, groups)
    /\ \A s \in Granted(doc, principal, groups) : s <= r

\* What an operation requires: a role, authentication alone, or nothing at all.
Anonymous == -1
Need == [view |-> 1, drive |-> 2,
         create |-> 3, delete |-> 3, read |-> 3, apply |-> 3,
         logout |-> 0,
         login |-> Anonymous, oidc |-> Anonymous, init |-> Anonymous]
Ops == DOMAIN Need

ASSUME AccessAssumption ==
  /\ NoPrincipal \notin Principals /\ Hosted \subseteq Principals
  /\ Asked \subseteq Ops /\ Documents \subseteq Document /\ Identities \subseteq Identity
  /\ TTL \in Nat \ {0} /\ {MaxTokens, MaxApplies, MaxTime} \subseteq Nat

Expired(i) == rows[i].expires # 0 /\ time > rows[i].expires
Good(i) == i \in stored /\ ~Expired(i)
IsRecovery(i) == i \in stored /\ rows[i].kind = Recovery

Nobody == [principal |-> NoPrincipal, groups |-> {}]

\* A request: what is asked, how far it has come, the credential presented and the tag it names;
\* the token it has found to delete or to exchange, the role found for it and whom a login has
\* found; and history, the policies in force when it arrived and when it was judged, and whether
\* its credential was good when it arrived.
Request(op, step, cred, tag, from, alive) ==
  [op |-> op, step |-> step, cred |-> cred, target |-> 0, tag |-> tag,
   role |-> 0, who |-> Nobody, from |-> from, judged |-> 0, alive |-> alive]

NoCall == Request("none", "idle", 0, 0, 0, FALSE)

AccessInit ==
  /\ rows = <<>> /\ stored = {} /\ time = 1
  /\ policy = [version |-> 0, document |-> EmptyDocument] /\ applied = <<>>
  /\ calls = [c \in Clients |-> NoCall]
  /\ cookies = [c \in Clients |-> 0]
  /\ reads = [c \in Clients |-> [tag |-> -1, document |-> EmptyDocument]]
  /\ server = "down" /\ resetFile = FALSE /\ armed = FALSE

(***************************************************************************)
(* Steps of a request.                                                     *)
(***************************************************************************)
At(c, step) == server = "up" /\ calls[c].step = step
AtHandler(c, op) == At(c, "handle") /\ calls[c].op = op

Proceeds(c, step) == calls' = [calls EXCEPT ![c].step = step]

Answered(c) == calls' = [calls EXCEPT ![c] = NoCall]

Unchanging(c) ==
  /\ Answered(c)
  /\ UNCHANGED <<table, document, cookies, reads>>

\* Answered that it has not authenticated, or holds no role that covers the operation.
Refused(c) ==
  /\ calls' = [calls EXCEPT ![c] = [NoCall EXCEPT !.step = "refused"]]
  /\ UNCHANGED <<table, document, cookies, reads>>

Minted(kind, source, who, expires, root) ==
  /\ Len(rows) < MaxTokens
  /\ rows' = Append(rows, [kind |-> kind, source |-> source, principal |-> who.principal,
                           groups |-> who.groups, expires |-> expires, root |-> root])
  /\ stored' = stored \cup {Len(rows) + 1}

\* The cookie a browser still sends.
Session(c) ==
  IF cookies[c] # 0 /\ time < rows[cookies[c]].expires THEN cookies[c] ELSE 0

\* A request presents a bearer credential, or else its browser's cookie, or nothing.  An
\* apply carries the tag its client read.
Arrive(c, op) ==
  /\ At(c, "idle")
  /\ op = "apply" => reads[c].tag >= 0
  /\ \E bearer \in {Alien} \cup 0..Len(rows) :
       LET cred == IF bearer = 0 THEN Session(c) ELSE bearer
       IN  calls' = [calls EXCEPT ![c] =
             Request(op, IF cred = 0 THEN "authorize" ELSE "lookup", cred,
                     IF op = "apply" THEN reads[c].tag ELSE 0, Len(applied), Good(cred))]
  /\ UNCHANGED <<cookies, reads, table, document>>

\* Mutant of Lookup: an expiry is left to the sweep.
LookupUnswept(c) ==
  /\ At(c, "lookup")
  /\ IF calls[c].cred \in stored
       THEN /\ Proceeds(c, IF rows[calls[c].cred].kind = Recovery THEN "authorize" ELSE "evaluate")
            /\ UNCHANGED <<cookies, reads, table, document>>
       ELSE Refused(c)

\* A credential that does not authenticate is refused whatever the operation requires.
Lookup(c) ==
  /\ At(c, "lookup")
  /\ IF Good(calls[c].cred)
       THEN /\ Proceeds(c, IF rows[calls[c].cred].kind = Recovery THEN "authorize" ELSE "evaluate")
            /\ UNCHANGED <<cookies, reads, table, document>>
       ELSE Refused(c)

EvaluateRole(c) ==
  /\ At(c, "evaluate")
  /\ LET row == rows[calls[c].cred]
         role == Evaluate(policy.document, row.principal, row.groups)
     IN  calls' = [calls EXCEPT ![c] =
           [@ EXCEPT !.step = "authorize", !.role = role, !.judged = Len(applied)]]
  /\ UNCHANGED <<cookies, reads, table, document>>

Permitted(call) ==
  \/ call.cred # 0 /\ rows[call.cred].kind = Recovery
  \/ Need[call.op] = Anonymous
  \/ call.cred # 0 /\ call.role >= Need[call.op]

Authorize(c) ==
  /\ At(c, "authorize")
  /\ IF Permitted(calls[c])
       THEN /\ Proceeds(c, "handle")
            /\ UNCHANGED <<cookies, reads, table, document>>
       ELSE Refused(c)

\* An operation on the resources themselves, of which only that it was let through matters here.
Serve(c) ==
  /\ At(c, "handle") /\ calls[c].op \in {"view", "drive"}
  /\ Unchanging(c)

CreateToken(c) ==
  /\ AtHandler(c, "create")
  /\ \E p \in Principals :
       Minted(Client, "static", [principal |-> p, groups |-> {}], 0, 0)
  /\ Answered(c)
  /\ UNCHANGED <<document, cookies, reads>>

\* A delete reads the token it names first, and refuses the recovery token.
FindToken(c) ==
  /\ AtHandler(c, "delete")
  /\ \E i \in {Alien} \cup 1..Len(rows) :
       IF i \in stored /\ rows[i].kind # Recovery
         THEN /\ calls' = [calls EXCEPT ![c] = [@ EXCEPT !.step = "remove", !.target = i]]
              /\ UNCHANGED <<cookies, reads, table, document>>
         ELSE Unchanging(c)

RemoveToken(c) ==
  /\ At(c, "remove")
  /\ stored' = stored \ {calls[c].target}
  /\ Answered(c)
  /\ UNCHANGED <<rows, document, cookies, reads>>

GetACLPolicy(c) ==
  /\ AtHandler(c, "read")
  /\ reads' = [reads EXCEPT ![c] = [tag |-> policy.version, document |-> policy.document]]
  /\ Answered(c)
  /\ UNCHANGED <<table, document, cookies>>

\* The answer to an apply carries the policy and its tag back, unless it is lost on its way.
Told(c, doc) ==
  \/ reads' = [reads EXCEPT ![c] = [tag |-> policy'.version, document |-> doc]]
  \/ UNCHANGED reads

\* Mutant of ApplyACLPolicy: the tag is not compared.
ApplyACLPolicyUntagged(c) ==
  /\ AtHandler(c, "apply")
  /\ \E doc \in Documents :
       /\ IF policy.version > 0 /\ policy.document = doc
            THEN UNCHANGED document
            ELSE /\ Len(applied) < MaxApplies
                 /\ policy' = [version |-> policy.version + 1, document |-> doc]
                 /\ applied' = Append(applied, doc)
       /\ Told(c, doc)
       /\ Answered(c)
       /\ UNCHANGED <<table, cookies>>

\* One transaction: refused when the stored version is not the one named, and a document that is
\* the stored one is not written.
ApplyACLPolicy(c) ==
  /\ AtHandler(c, "apply")
  /\ \E doc \in Documents :
       \/ /\ policy.version # calls[c].tag
          /\ Unchanging(c)
       \/ /\ policy.version = calls[c].tag
          /\ IF policy.version > 0 /\ policy.document = doc
               THEN UNCHANGED document
               ELSE /\ Len(applied) < MaxApplies
                    /\ policy' = [version |-> policy.version + 1, document |-> doc]
                    /\ applied' = Append(applied, doc)
          /\ Told(c, doc)
          /\ Answered(c)
          /\ UNCHANGED <<table, cookies>>

\* Mutant of Logout: whatever token was presented is revoked.
LogoutAny(c) ==
  /\ AtHandler(c, "logout")
  /\ stored' = stored \ {calls[c].cred}
  /\ cookies' = [cookies EXCEPT ![c] = 0]
  /\ Answered(c)
  /\ UNCHANGED <<rows, document, reads>>

\* The recovery token is not revoked by logging out.  What is no longer there to revoke is no
\* error, and the browser is told to drop its cookie.
Logout(c) ==
  /\ AtHandler(c, "logout")
  /\ LET i == calls[c].cred
     IN  IF rows[i].kind = Recovery
           THEN Unchanging(c)
           ELSE /\ stored' = stored \ {i}
                /\ cookies' = [cookies EXCEPT ![c] = 0]
                /\ Answered(c)
                /\ UNCHANGED <<rows, document, reads>>

\* Whom a login stands for, for whom a token is to be minted.
Found(c, principal, groups, root) ==
  calls' = [calls EXCEPT ![c] =
    [@ EXCEPT !.step = "mint", !.target = root,
              !.who = [principal |-> principal, groups |-> groups]]]

\* Mutant of LoginToken: any client token is exchanged.
LoginTokenAny(c) ==
  /\ AtHandler(c, "login")
  /\ \E i \in {Alien} \cup 1..Len(rows) :
       IF Good(i) /\ rows[i].kind = Client
         THEN /\ Found(c, rows[i].principal, rows[i].groups, i)
              /\ UNCHANGED <<cookies, reads, table, document>>
         ELSE Refused(c)

\* Only a static token is exchanged for a session; any other credential is refused.
LoginToken(c) ==
  /\ AtHandler(c, "login")
  /\ \E i \in {Alien} \cup 1..Len(rows) :
       IF Good(i) /\ rows[i].source = "static"
         THEN /\ Found(c, rows[i].principal, rows[i].groups, i)
              /\ UNCHANGED <<cookies, reads, table, document>>
         ELSE Refused(c)

\* An identity the issuer vouches for, read by the claims the policy names; one it does not vouch
\* for, or one without the claim, is refused.
LoginOIDC(c) ==
  /\ AtHandler(c, "oidc")
  /\ \/ Refused(c)
     \/ \E i \in Identities :
          /\ i[policy.document.claim] # NoPrincipal
          /\ Found(c, i[policy.document.claim],
                   IF policy.document.groupsClaim THEN i.groups ELSE {}, 0)
          /\ UNCHANGED <<cookies, reads, table, document>>

\* The token of a login, which is handed to the browser as a cookie when that is asked for.
MintLogin(c) ==
  /\ At(c, "mint")
  /\ Minted(Client, IF calls[c].op = "login" THEN "session" ELSE "oidc", calls[c].who,
            time + TTL, calls[c].target)
  /\ \E kept \in BOOLEAN :
       cookies' = IF kept THEN [cookies EXCEPT ![c] = Len(rows) + 1] ELSE cookies
  /\ Answered(c)
  /\ UNCHANGED <<document, reads>>

\* The table holds one recovery token at most, by an index.
InitACL(c) ==
  /\ AtHandler(c, "init")
  /\ IF \E i \in stored : IsRecovery(i)
       THEN Unchanging(c)
       ELSE /\ Minted(Recovery, "init", Nobody, 0, 0)
            /\ Answered(c)
            /\ UNCHANGED <<document, cookies, reads>>

\* A statement fails, or the caller goes away.
RequestFails(c) ==
  /\ server = "up" /\ calls[c].step \notin {"idle", "refused"}
  /\ Unchanging(c)

Receive(c) ==
  /\ At(c, "refused")
  /\ calls' = [calls EXCEPT ![c] = NoCall]
  /\ UNCHANGED <<cookies, reads, table, document>>

(***************************************************************************)
(* What else changes the table, and the host.                              *)
(***************************************************************************)
Swept == {i \in stored : rows[i].expires # 0 /\ rows[i].expires <= time}

SweepTokens ==
  /\ server = "up" /\ Swept # {}
  /\ stored' = stored \ Swept
  /\ UNCHANGED <<rows, time, document, requests, host>>

WorkloadStarts ==
  /\ server = "up"
  /\ \E p \in Hosted :
       Minted(Client, "workload", [principal |-> p, groups |-> {}], 0, 0)
  /\ UNCHANGED <<time, document, requests, host>>

WorkloadStops ==
  /\ server = "up"
  /\ \E i \in stored :
       rows[i].source = "workload" /\ stored' = stored \ {i}
  /\ UNCHANGED <<rows, time, document, requests, host>>

ClockTicks ==
  /\ time < MaxTime /\ time' = time + 1
  /\ UNCHANGED <<table, document, requests, host>>

\* The operator writes the file that asks for a reset.
WriteReset ==
  /\ ~resetFile /\ resetFile' = TRUE
  /\ armed' = (server = "up")
  /\ UNCHANGED <<table, time, document, requests, server>>

ComesUp ==
  /\ server' = "up" /\ armed' = FALSE
  /\ UNCHANGED <<time, document, requests>>

BootPlain ==
  /\ server = "down" /\ ~resetFile
  /\ ComesUp
  /\ UNCHANGED <<table, resetFile>>

\* The recovery token goes before the file does.
BootReset ==
  /\ server = "down" /\ resetFile
  /\ stored' = {i \in stored : rows[i].kind # Recovery}
  /\ server' = "resetting"
  /\ UNCHANGED <<rows, time, document, requests, resetFile, armed>>

BootRemove ==
  /\ server = "resetting"
  /\ resetFile' = FALSE
  /\ ComesUp
  /\ UNCHANGED table

\* The server stops, dies, or cannot remove the file and does not come up.
ServerStops ==
  /\ server # "down" /\ server' = "down"
  /\ calls' = [c \in Clients |-> NoCall]
  /\ UNCHANGED <<table, time, document, cookies, reads, resetFile, armed>>

RequestStep(c) ==
  /\ \/ \E op \in Asked : Arrive(c, op)
     \/ Lookup(c) \/ EvaluateRole(c) \/ Authorize(c)
     \/ Serve(c) \/ CreateToken(c) \/ FindToken(c) \/ RemoveToken(c)
     \/ GetACLPolicy(c) \/ ApplyACLPolicy(c)
     \/ Logout(c) \/ LoginToken(c) \/ LoginOIDC(c) \/ MintLogin(c) \/ InitACL(c)
     \/ RequestFails(c) \/ Receive(c)
  /\ UNCHANGED <<time, host>>

AccessNext ==
  \/ \E c \in Clients : RequestStep(c)
  \/ SweepTokens \/ WorkloadStarts \/ WorkloadStops \/ ClockTicks
  \/ WriteReset \/ BootPlain \/ BootReset \/ BootRemove \/ ServerStops

AccessSpec == AccessInit /\ [][AccessNext]_accessVars

(***************************************************************************)
(* Properties.                                                             *)
(***************************************************************************)
Steps == {"idle", "lookup", "evaluate", "authorize", "handle", "remove", "mint", "refused"}

\* The shapes of the table, the policy and the requests.
AccessTypeOK ==
  /\ rows \in Seq(Token) /\ stored \subseteq 1..Len(rows) /\ time \in Nat
  /\ policy \in [version : Nat, document : Document] /\ applied \in Seq(Document)
  /\ calls \in [Clients -> [op : Ops \cup {"none"}, step : Steps, cred : Int, target : Nat, tag : Int,
                            role : 0..3, who : [principal : Named, groups : SUBSET Groups],
                            from : Nat, judged : Nat, alive : BOOLEAN]]
  /\ cookies \in [Clients -> 0..Len(rows)]
  /\ reads \in [Clients -> [tag : Int, document : Document]]
  /\ server \in {"down", "resetting", "up"} /\ resetFile \in BOOLEAN /\ armed \in BOOLEAN

Handled == {"handle", "remove", "mint"}
WrittenAt(k) == IF k = 0 THEN EmptyDocument ELSE applied[k]

\* A handler runs only for a caller with the right to it: a credential that was presented is one
\* that the table held, unexpired, when the request arrived, and for an operation that is not
\* anonymous there is one, of the recovery token or of a principal to which a policy in force at
\* or after the request's arrival grants the role (Authenticate, authorize).  So a revocation, an
\* expiry and an apply bind every request that follows.
ServedByRight ==
  \A c \in Clients :
    LET k == calls[c]
        row == rows[k.cred]
    IN  k.step \in Handled =>
          /\ k.cred # 0 => k.alive
          /\ \/ Need[k.op] = Anonymous
             \/ k.cred # 0 /\ row.kind = Recovery
             \/ /\ k.cred # 0 /\ k.judged \in k.from..Len(applied)
                /\ Evaluate(WrittenAt(k.judged), row.principal, row.groups) >= Need[k.op]

\* A token minted by a login does not outlive the login by more than its lifetime, and a session
\* stands for the static token it was exchanged for: no session, no workload's token and no
\* recovery token has been exchanged for one, so no chain of logins renews itself (LoginToken, mint).
SessionsFromStatic ==
  \A i \in 1..Len(rows) :
    /\ rows[i].source \in {"session", "oidc"} => rows[i].expires \in 1..(time + TTL)
    /\ rows[i].source = "session" =>
         /\ rows[i].root \in 1..(i - 1)
         /\ LET root == rows[rows[i].root]
            IN  root.source = "static" /\ root.principal = rows[i].principal
                /\ root.groups = rows[i].groups

\* A server that is up has consumed the reset file it found, so that the file does not take the
\* next recovery token as well: one that is there was written since (Run, before it listens).
ResetConsumed == server = "up" /\ resetFile => armed

\* The recovery token leaves the table only as a server comes up beside the reset file: not by a
\* delete, a logout, a sweep or a workload's end, whatever runs between their statements.
RecoveryStays ==
  [][\A i \in stored \ stored' : rows[i].kind = Recovery => server = "down" /\ resetFile]_accessVars

\* The policy is changed only by a caller whose last word from the server was the document it
\* replaces, so that two applies never silently overwrite each other, and neither does one that is
\* sent again after its answer was lost (Apply).
NoLostPolicy ==
  [][policy # policy' =>
       \E c \in Clients :
         /\ calls[c].step = "handle" /\ calls[c].op = "apply" /\ calls'[c].step = "idle"
         /\ reads[c].tag >= 0 /\ reads[c].document = policy.document]_accessVars

\* Whoever holds the recovery token is not refused for want of a right, whatever the policy says
\* (authorize, before it looks at a role).
NoLockout ==
  [][\A c \in Clients :
       calls[c].step \in {"lookup", "evaluate", "authorize"} /\ IsRecovery(calls[c].cred)
       => calls'[c].step # "refused"]_accessVars

\* A caller that the server refuses signs in and goes on: a token login is anonymous, so it is not
\* refused, before its token is looked at, for the cookie that the browser still sends
\* (router.ts, the guard; api/openapi.yaml, the operations that are anonymous).
SignsInAgain ==
  [][\A c \in Clients :
       /\ calls[c].op = "login" /\ calls[c].step \in {"lookup", "authorize"}
       /\ calls[c].cred \in {0, Session(c)}
       => calls'[c].step # "refused"]_accessVars
=============================================================================
