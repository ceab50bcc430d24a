----------------------------- MODULE MobileLogin -----------------------------
(***************************************************************************)
(* The trunk of one mobile user: provisioning it while a WebSocket of the  *)
(* user connects, logging out with "unregister", and clients of any kind   *)
(* that resolve the same trunk or store a push contact for it.             *)
(*                                                                         *)
(* A phone's login and logout exclude each other by a reservation of the   *)
(* account (mobileOps), held from before the provisioning until the socket *)
(* is in wsConnections, so that a logout either is refused or sees every   *)
(* phone that shares the registration.  trunk_resolve takes no reservation *)
(* and no lock.                                                            *)
(*                                                                         *)
(* The database row is `row`, the registrar's binding is `contact`, and a  *)
(* REGISTER or un-REGISTER is two steps: what the gateway writes before    *)
(* the network, and the answer.  What refresh workers and other gateways   *)
(* do to the trunk is in TrunkLease and AgentPresence.                     *)
(***************************************************************************)
EXTENDS Naturals, FiniteSets

CONSTANTS Phones,      \* sockets of the user, on /ws with provisioning
          Guests,      \* sockets without provisioning that resolve the trunk
          MaxFails,    \* bound: failures of the account service, the database and SIP
          MaxLogins,   \* bound: connections
          MaxAsks,     \* bound: resolves, push tokens and logouts
          NoSocket

Sockets == Phones \cup Guests

VARIABLES pc,          \* [Sockets -> what the socket's goroutine does next]
          reserved,    \* the socket whose operation has the account, or NoSocket
          connections, \* wsConnections
          resolved,    \* the sockets with trunkResolved
          row,         \* [auto, lease, notify]: of sip_trunks
          contact,     \* the registrar has the trunk's Contact
          asked,       \* the phones whose own logout has been begun
          quiet,       \* "releasing" or "yes": logged out, and nobody has logged in since
          asks, logins, fails  \* bounds

vars == <<pc, reserved, connections, resolved, row, contact, asked, quiet, asks, logins, fails>>
bounds == <<asks, logins>>

Resolving == {"resolve_mark", "resolve_bind", "push_store", "push_register", "push_answer"}
LoggingIn == {"login_account", "login_bind", "login_register", "login_answer", "login_upgrade", "login_release"}
LoggingOut == {"logout_verify", "logout_shared", "logout_begin", "logout_answer", "logout_token", "logout_notify", "logout_end"}

TypeOK == /\ pc \in [Sockets -> {"out", "in"} \cup Resolving \cup LoggingIn \cup LoggingOut]
          /\ reserved \in Phones \cup {NoSocket}
          /\ connections \subseteq Sockets /\ resolved \subseteq Sockets /\ asked \subseteq Phones
          /\ row \in [auto : BOOLEAN, lease : BOOLEAN, notify : Sockets \cup {NoSocket}]
          /\ contact \in BOOLEAN /\ quiet \in {"no", "releasing", "yes"}
          /\ asks \in 0..MaxAsks /\ logins \in 0..MaxLogins /\ fails \in 0..MaxFails

Init == /\ pc = [c \in Sockets |-> "out"] /\ reserved = NoSocket
        /\ connections = {} /\ resolved = {} /\ asked = {}
        /\ row = [auto |-> FALSE, lease |-> FALSE, notify |-> NoSocket]
        /\ contact = FALSE /\ quiet = "no"
        /\ asks = 0 /\ logins = 0 /\ fails = 0

-----------------------------------------------------------------------------
Goto(c, l) == pc' = [pc EXCEPT ![c] = l]
Fail == fails < MaxFails /\ fails' = fails + 1

(* reserveMobileAccount: one operation on the account at a time. *)
(* Mutant: the reservation is not looked at. *)
Reserve_Always(c) == reserved' = c
Reserve(c) == reserved = NoSocket /\ reserved' = c
(* Mutant: a login that fails keeps the account reserved. *)
Release_Keeps(c) == UNCHANGED reserved
Release(c) == reserved' = NoSocket

(* RegisterTrunk, forced, before the network: automatic registration is on *)
(* and the lease is this gateway's.                                        *)
RegisterTrunk == row' = [row EXCEPT !.auto = TRUE, !.lease = TRUE]

-----------------------------------------------------------------------------
(* A phone connects: the account is reserved, provisioned, its trunk bound *)
(* to the user and registered, and then the socket is upgraded.            *)
Connect(c) == /\ pc[c] = "out" /\ logins < MaxLogins
              /\ IF c \in Phones THEN Reserve(c) /\ Goto(c, "login_account") /\ UNCHANGED connections
                                 ELSE connections' = connections \cup {c} /\ Goto(c, "in") /\ UNCHANGED reserved
              /\ logins' = logins + 1
              /\ asked' = asked \ {c} /\ quiet' = (IF c \in Phones THEN "no" ELSE quiet)
              /\ UNCHANGED <<resolved, row, contact, asks, fails>>

(* RegisterMobile and UpsertMobileTrunk: the row has the account's credentials. *)
Account(c) == /\ pc[c] = "login_account" /\ Goto(c, "login_bind")
              /\ UNCHANGED <<reserved, connections, resolved, row, contact, asked, quiet, bounds, fails>>

BindUser(c) == /\ pc[c] = "login_bind" /\ Goto(c, "login_register")
               /\ row' = [row EXCEPT !.notify = c]
               /\ UNCHANGED <<reserved, connections, resolved, contact, asked, quiet, bounds, fails>>

LoginRegister(c) == /\ pc[c] = "login_register" /\ Goto(c, "login_answer") /\ RegisterTrunk
                    /\ UNCHANGED <<reserved, connections, resolved, contact, asked, quiet, bounds, fails>>

LoginAnswer(c) == /\ pc[c] = "login_answer" /\ Goto(c, "login_upgrade") /\ contact' = TRUE
                  /\ UNCHANGED <<reserved, connections, resolved, row, asked, quiet, bounds, fails>>

(* Any of it fails: the request is refused and the account free again; what *)
(* was written stays.                                                       *)
LoginFails(c) == /\ pc[c] \in {"login_account", "login_bind", "login_answer", "login_upgrade"} /\ Fail
                 /\ Goto(c, "out") /\ Release(c)
                 /\ UNCHANGED <<connections, resolved, row, contact, asked, quiet, bounds>>

(* The new client has its trunk and enters wsConnections ... *)
Upgrade(c) == /\ pc[c] = "login_upgrade" /\ Goto(c, "login_release")
              /\ connections' = connections \cup {c} /\ resolved' = resolved \cup {c}
              /\ UNCHANGED <<reserved, row, contact, asked, quiet, bounds, fails>>

(* ... and only then is the account free for another operation. *)
LoggedIn(c) == /\ pc[c] = "login_release" /\ Goto(c, "in") /\ Release(c)
               /\ UNCHANGED <<connections, resolved, row, contact, asked, quiet, bounds, fails>>

-----------------------------------------------------------------------------
May(c) == pc[c] = "in" /\ asks < MaxAsks
Ask == asks' = asks + 1

(* unregister: refused while another operation has the account. *)
Unregister(c) == /\ c \in Phones /\ May(c) /\ Ask
                 /\ Reserve(c) /\ Goto(c, "logout_verify")
                 /\ UNCHANGED <<connections, resolved, row, contact, asked, quiet, logins, fails>>
UnregisterBusy(c) == /\ c \in Phones /\ May(c) /\ Ask
                     /\ reserved # NoSocket
                     /\ UNCHANGED <<pc, reserved, connections, resolved, row, contact, asked, quiet, logins, fails>>

(* The row's name must be that of the verified subject. *)
Verify(c) == /\ pc[c] = "logout_verify" /\ Goto(c, "logout_shared")
             /\ UNCHANGED <<reserved, connections, resolved, row, contact, asked, quiet, bounds, fails>>

(* Another connection that was provisioned with the trunk - its            *)
(* mobileTrunkID is never taken away - or has resolved it: refused.        *)
(* Mutant: only connections that still have it resolved count. *)
Shared_Nobody(c) == FALSE
Shared(c) == \E d \in connections \ {c} : d \in Phones \/ d \in resolved
CheckShared(c) == /\ pc[c] = "logout_shared"
                  /\ \/ /\ Shared(c) /\ Goto(c, "in") /\ Release(c)
                     \/ /\ ~Shared(c) /\ Goto(c, "logout_begin")
                        /\ UNCHANGED reserved
                  /\ UNCHANGED <<connections, resolved, row, contact, asked, quiet, bounds, fails>>

(* No other client has resolved the trunk or is about to. *)
Alone(c) == \A d \in Sockets \ {c} : d \notin resolved /\ pc[d] \notin Resolving

(* UnregisterTrunk: the intent is persisted, then SIP, and the lease is    *)
(* released whatever SIP answered.                                         *)
LogoutBegin(c) == /\ pc[c] = "logout_begin" /\ Goto(c, "logout_answer")
                  /\ row' = [row EXCEPT !.auto = FALSE] /\ asked' = asked \cup {c}
                  /\ quiet' = IF Alone(c) THEN "releasing" ELSE "no"
                  /\ UNCHANGED <<reserved, connections, resolved, contact, bounds, fails>>
LogoutAnswer(c) == /\ pc[c] = "logout_answer" /\ Goto(c, "logout_token")
                   /\ contact' = FALSE /\ row' = [row EXCEPT !.lease = FALSE]
                   /\ UNCHANGED <<reserved, connections, resolved, asked, quiet, bounds, fails>>
ClearToken(c) == /\ pc[c] = "logout_token" /\ Goto(c, "logout_notify")
                 /\ UNCHANGED <<reserved, connections, resolved, row, contact, asked, quiet, bounds, fails>>
ClearNotify(c) == /\ pc[c] = "logout_notify" /\ Goto(c, "logout_end")
                  /\ row' = [row EXCEPT !.notify = NoSocket]
                  /\ UNCHANGED <<reserved, connections, resolved, contact, asked, quiet, bounds, fails>>

(* A failure keeps the connection's trunk, for a retry.  An un-REGISTER     *)
(* that timed out may have been carried out.                               *)
LogoutFails(c) == /\ pc[c] \in {"logout_verify", "logout_answer", "logout_token", "logout_notify"} /\ Fail
                  /\ Goto(c, "in") /\ Release(c)
                  /\ row' = [row EXCEPT !.lease = @ /\ pc[c] # "logout_answer"]
                  /\ contact' \in IF pc[c] = "logout_answer" THEN {contact, FALSE} ELSE {contact}
                  /\ quiet' = IF quiet = "releasing" THEN "no" ELSE quiet
                  /\ UNCHANGED <<connections, resolved, asked, bounds>>

(* The client's calls end, it has no trunk any more, and is told so. *)
(* Mutant: the acknowledgement does not wait for the notification's cleanup. *)
LogoutEnd_Early(c) == /\ pc[c] = "logout_notify" /\ Goto(c, "in") /\ Release(c)
                      /\ resolved' = resolved \ {c}
                      /\ quiet' = IF quiet = "releasing" THEN "yes" ELSE quiet
                      /\ UNCHANGED <<connections, row, contact, asked, bounds, fails>>
LogoutEnd(c) == /\ pc[c] = "logout_end" /\ Goto(c, "in") /\ Release(c)
                /\ resolved' = resolved \ {c}
                /\ quiet' = IF quiet = "releasing" THEN "yes" ELSE quiet
                /\ UNCHANGED <<connections, row, contact, asked, bounds, fails>>

-----------------------------------------------------------------------------
(* trunk_resolve: only on a trunk whose lease is this gateway's. *)
Resolve(c) == /\ May(c) /\ Ask
              /\ \/ /\ row.lease /\ Goto(c, "resolve_mark")
                    /\ quiet' = IF quiet = "releasing" THEN "no" ELSE quiet
                 \/ ~row.lease /\ UNCHANGED <<pc, quiet>>
              /\ UNCHANGED <<reserved, connections, resolved, row, contact, asked, logins, fails>>
MarkResolved(c) == /\ pc[c] = "resolve_mark" /\ Goto(c, "resolve_bind")
                   /\ resolved' = resolved \cup {c}
                   /\ UNCHANGED <<reserved, connections, row, contact, asked, quiet, bounds, fails>>
(* The user's notifications move to the trunk; a failure is only logged.    *)
(* With a push contact in the message its update follows.                   *)
ResolveBind(c) == /\ pc[c] = "resolve_bind" /\ pc' \in {[pc EXCEPT ![c] = "push_store"], [pc EXCEPT ![c] = "in"]}
                  /\ row' \in {[row EXCEPT !.notify = c], row}
                 
                  /\ UNCHANGED <<reserved, connections, resolved, contact, asked, quiet, bounds, fails>>

(* trunk_push_token, on the connection's own trunk. *)
PushToken(c) == /\ May(c) /\ c \in resolved /\ Ask /\ Goto(c, "push_store")
                /\ UNCHANGED <<reserved, connections, resolved, row, contact, asked, quiet, logins, fails>>
(* A contact that changed is registered anew, without a lock. *)
PushStore(c) == /\ pc[c] = "push_store" /\ pc' \in {[pc EXCEPT ![c] = "push_register"], [pc EXCEPT ![c] = "in"]}
                /\ UNCHANGED <<reserved, connections, resolved, row, contact, asked, quiet, bounds, fails>>
PushRegister(c) == /\ pc[c] = "push_register" /\ Goto(c, "push_answer") /\ RegisterTrunk
                   /\ UNCHANGED <<reserved, connections, resolved, contact, asked, quiet, bounds, fails>>
PushAnswer(c) == /\ pc[c] = "push_answer" /\ Goto(c, "in") /\ contact' = TRUE
                 /\ UNCHANGED <<reserved, connections, resolved, row, asked, quiet, bounds, fails>>
PushFails(c) == /\ pc[c] = "push_answer" /\ Fail /\ Goto(c, "in")
                /\ UNCHANGED <<reserved, connections, resolved, row, contact, asked, quiet, bounds>>

(* The socket closes between two messages: detachWSClient. *)
Disconnect(c) == /\ pc[c] = "in" /\ Goto(c, "out")
                 /\ connections' = connections \ {c} /\ resolved' = resolved \ {c}
                 /\ UNCHANGED <<reserved, row, contact, asked, quiet, bounds, fails>>

-----------------------------------------------------------------------------
LoginStep(c) == Account(c) \/ BindUser(c) \/ LoginRegister(c) \/ LoginAnswer(c) \/ Upgrade(c) \/ LoggedIn(c)
LogoutStep(c) == Verify(c) \/ CheckShared(c) \/ LogoutBegin(c) \/ LogoutAnswer(c) \/ ClearToken(c) \/ ClearNotify(c) \/ LogoutEnd(c)
ResolveStep(c) == MarkResolved(c) \/ ResolveBind(c) \/ PushStore(c) \/ PushRegister(c) \/ PushAnswer(c)

Next == \E c \in Sockets :
          \/ Connect(c) \/ LoginStep(c) \/ LoginFails(c)
          \/ Unregister(c) \/ UnregisterBusy(c) \/ LogoutStep(c) \/ LogoutFails(c)
          \/ Resolve(c) \/ PushToken(c) \/ ResolveStep(c) \/ PushFails(c)
          \/ Disconnect(c)

Spec == Init /\ [][Next]_vars

-----------------------------------------------------------------------------
(* A phone that is connected and has not asked to be logged out stays      *)
(* registered, whatever other sockets of the user do at the same time.     *)
PhoneReachable == \A c \in Phones \cap connections : c \in asked \/ contact

(* After "unregistered" the user is neither registered, nor registered     *)
(* again by itself, nor notified, until a phone connects anew; excepted is *)
(* a client whose trunk_resolve had read the lease before it was released. *)
LogoutLasts == quiet = "yes" => ~contact /\ ~row.auto /\ row.notify = NoSocket

(* The account is reserved only while its holder's login or logout is under *)
(* way, one at a time: a user is never locked out.                          *)
AccountFree == \A c \in Phones : (reserved = c) <=> (pc[c] \in LoggingIn \cup LoggingOut)

(* Why: a logout that is past its check is that of the only phone; one that *)
(* nobody disturbs has left nothing that would register the user again.     *)
Placed ==
    /\ \A c \in Phones : pc[c] \in (LoggingIn \cup {"out"}) \ {"login_release"} => c \notin connections
    /\ \A c \in Guests : pc[c] \notin LoggingIn \cup LoggingOut
LastPhone ==
    \A c \in Phones :
      /\ pc[c] \in {"logout_begin", "logout_answer"} => Phones \cap connections \subseteq {c}
      /\ pc[c] = "logout_answer" => c \in asked
Answered == \A c \in Phones : pc[c] = "login_upgrade" => contact
Releasing ==
    quiet = "releasing" =>
      \E c \in Phones :
         /\ pc[c] \in {"logout_answer", "logout_token", "logout_notify", "logout_end"}
         /\ Alone(c) /\ ~row.auto
         /\ pc[c] # "logout_answer" => ~contact /\ ~row.lease
         /\ pc[c] = "logout_end" => row.notify = NoSocket
Quiet ==
    quiet = "yes" =>
      /\ ~row.lease /\ resolved = {}
      /\ \A c \in Sockets : pc[c] \notin Resolving \cup LoggingIn
MobileInv == TypeOK /\ AccountFree /\ Placed /\ LastPhone /\ Answered /\ PhoneReachable
               /\ Releasing /\ Quiet /\ LogoutLasts

AccountsKept == PhoneReachable /\ LogoutLasts /\ AccountFree
=============================================================================
