----------------------------- MODULE TrunkMatch -----------------------------
(***************************************************************************)
(* Which trunk an incoming INVITE is for (sip/trunk_invite_match.go), out  *)
(* of what the gateway remembers of its registrations                      *)
(* (sip/trunk_registrar_identity.go): usernames are not unique, and the    *)
(* PBX puts the gateway's own Contact in the Request-URI, so the INVITE's  *)
(* origin is compared with the registrar each trunk last registered with.  *)
(* That memory changes with every REGISTER that ends, while rows are       *)
(* edited, reloaded, logged in and logged out.                             *)
(*                                                                         *)
(* A host stands for a host over one transport, in its normalised form.    *)
(***************************************************************************)
EXTENDS Naturals, FiniteSets

CONSTANTS
  Lines,         \* trunks, by id
  Kind,          \* what a trunk's name makes it: "plain", "agent" or "device"
  Configs,       \* what a row may say: user, host and port
  Home,          \* what the login of an agent or a device puts in its row
  Address(_),    \* the address a registrar's host resolves to
  Here,          \* the gateway's own Contact: host and port
  Invites,       \* INVITEs: ruri and to with user and at; source, via and contact
  MaxRequests, MaxGen, MaxSent,  \* bounds: requests, generations, REGISTERs under way at once
  None

Ambiguous == 0  \* no trunk's id

(* What the constants must be. *)
Given ==
  /\ Lines \subseteq Nat \ {Ambiguous} /\ Kind \in [Lines -> {"plain", "agent", "device"}]
  /\ Home \in [Lines -> Configs] /\ None \notin Lines /\ None \notin Configs

VARIABLES
  row,        \* sip_trunks: config and on, or None
  cached,     \* tm.trunks: the config of a loaded trunk, or None
  owned,      \* tm.ownedLeases
  gen,        \* tm.registrarGenerations
  ident,      \* tm.registrarIdentities, the unexpired ones: config, gen and ends
  sent,       \* the REGISTERs under way: line, config and gen
  request,    \* the request being served: op, and what it has read
  requests,
  voided      \* history: the generation of the trunk's last invalidation

vars == <<row, cached, owned, gen, ident, sent, request, requests, voided>>

Rows == [config : Configs, on : BOOLEAN]
Ends(c) == {[host |-> c.host, port |-> c.port], [host |-> Address(c.host), port |-> c.port]}

TypeOK ==
  /\ row \in [Lines -> Rows \cup {None}] /\ cached \in [Lines -> Configs \cup {None}]
  /\ owned \subseteq Lines
  /\ gen \in [Lines -> Nat] /\ voided \in [Lines -> Nat] /\ requests \in 0..MaxRequests
  /\ \A t \in Lines : ident[t] # None => ident[t].config \in Configs /\ ident[t].gen \in Nat
  /\ sent \subseteq [line : Lines, config : Configs, gen : Nat]

Idle == [op |-> "none"]

Loaded(r) == IF r # None /\ r.on THEN r.config ELSE None

(* A manager that has loaded the rows and registered nothing yet. *)
Fresh ==
  /\ cached = [t \in Lines |-> Loaded(row[t])] /\ owned = {}
  /\ gen = [t \in Lines |-> 0] /\ voided = [t \in Lines |-> 0]
  /\ ident = [t \in Lines |-> None] /\ sent = {}
  /\ request = Idle

Init ==
  /\ row \in [Lines -> {[config |-> c, on |-> TRUE] : c \in Configs} \cup {None}]
  /\ \A t \in Lines : row[t] # None => row[t].config = Home[t]
  /\ requests = 0 /\ Fresh

-----------------------------------------------------------------------------
(* The match, over what is remembered now. *)

(* snapshotInviteMatchState: trunks, leases and identities are copied under one
   read lock, so that a match sees one state. *)
Owned == {t \in Lines : cached[t] # None /\ t \in owned}
Eligible == {t \in Owned : ident[t] # None}

UserIs(t, user) == user # None /\ cached[t].user = user
HostIs(t, at) == at # None /\ cached[t].host = at.host
PortIs(t, at) == at # None /\ cached[t].port = at.port

(* The sibling trunks of one account, an agent's and its device's, share a
   Contact and count as one: the device's, then the oldest. *)
Siblings(t, u) == Kind[t] # "plain" /\ Kind[u] # "plain" /\ cached[t] = cached[u]
Before(t, u) == IF Kind[t] = Kind[u] THEN t < u ELSE Kind[t] = "device"
Collapsed(S) == {t \in S : \A u \in S \ {t} : Siblings(t, u) => Before(t, u)}

Unique(S) == IF Cardinality(S) = 1 THEN CHOOSE t \in S : TRUE ELSE None

Single(S) ==
  IF Cardinality(Collapsed(S)) > 1 THEN Ambiguous ELSE Unique(Collapsed(S))

(* The first rule that says something. *)
a ?? b == IF a # None THEN a ELSE b

Exact(S, end) == {t \in S : end \in ident[t].ends}
Relaxed(S, end) == {t \in S : end # None /\ \E e \in ident[t].ends : e.host = end.host}

(* The transport's peer comes first; Via and Contact may only choose among
   those it leaves. *)
FromPeer(S, i) == IF Exact(S, i.source) # {} THEN Exact(S, i.source) ELSE Relaxed(S, i.source)

ByOrigin(S, i) ==
  LET peer == FromPeer(S, i)
      rest == IF peer = {} THEN S ELSE peer
  IN  Unique(S) ?? Unique(peer) ?? Unique(Exact(rest, i.via)) ?? Unique(Exact(rest, i.contact))
        ?? Unique(Relaxed(rest, i.via)) ?? Unique(Relaxed(rest, i.contact)) ?? Single(rest)

SipUser(i) == IF i.ruri.user # None THEN i.ruri.user ELSE i.to.user
OfUser(i) == {t \in Eligible : UserIs(t, SipUser(i))}

ByUserHostPort(uri) == Single({t \in Eligible : UserIs(t, uri.user) /\ HostIs(t, uri.at) /\ PortIs(t, uri.at)})
ByUserHost(uri) == Single({t \in Eligible : UserIs(t, uri.user) /\ HostIs(t, uri.at)})
ByHostPort(uri, user) ==
  Single({t \in Eligible : HostIs(t, uri.at) /\ PortIs(t, uri.at) /\ (user # None => UserIs(t, user))})

(* A URI that names the gateway's own Contact says where the INVITE was
   delivered and not whom it is for. *)
Remote(uri) == uri.at # Here

ByRequestUri(i) ==
  IF ~Remote(i.ruri) THEN None
  ELSE ByUserHostPort(i.ruri) ??
       (IF ByUserHost(i.ruri) = Ambiguous THEN ByOrigin(OfUser(i), i) ?? Ambiguous ELSE ByUserHost(i.ruri))

ByTo(i) ==
  IF ~Remote(i.to) THEN None
  ELSE ByUserHostPort(i.to) ?? (IF ByUserHost(i.to) = Ambiguous THEN None ELSE ByUserHost(i.to))

Match(i) ==
  ByRequestUri(i) ?? ByTo(i)
    ?? (IF Remote(i.ruri) THEN ByHostPort(i.ruri, SipUser(i)) ELSE None)
    ?? (IF Remote(i.to) THEN ByHostPort(i.to, SipUser(i)) ELSE None)
    ?? ByOrigin(OfUser(i), i)

(* What handleINVITE answers to a new INVITE. *)
Answer(i) ==
  IF Match(i) = None THEN 403
  ELSE IF Match(i) = Ambiguous THEN 503
  ELSE IF Match(i) \notin owned THEN 404 ELSE 100

-----------------------------------------------------------------------------
(* The registrations. *)

(* invalidateRegistrarIdentityLocked, for the trunks of S. *)
Void(S) ==
  /\ gen' = [t \in Lines |-> IF t \in S THEN gen[t] + 1 ELSE gen[t]]
  /\ ident' = [t \in Lines |-> IF t \in S THEN None ELSE ident[t]]
  /\ voided' = [t \in Lines |-> IF t \in S THEN gen[t] + 1 ELSE voided[t]]

(* registerTrunk, for a login, a reload, a refresh worker or a sibling that
   logs out: it copies the trunk and leaves the lock for the exchange. *)
Send(t) ==
  /\ cached[t] # None /\ Cardinality(sent) < MaxSent /\ gen[t] < MaxGen
  /\ gen' = [gen EXCEPT ![t] = @ + 1]
  /\ sent' = sent \cup {[line |-> t, config |-> cached[t], gen |-> gen[t] + 1]}
  /\ UNCHANGED <<row, cached, owned, ident, request, requests, voided>>

(* No destination, no answer, or not a 2xx: the last identity stays. *)
Refused(r) ==
  /\ sent' = sent \ {r}
  /\ UNCHANGED <<row, cached, owned, gen, ident, request, requests, voided>>

(* A 2xx: the host, what it resolves to and the answer's source are the
   identity, unless a later REGISTER or an invalidation has come between. *)
Published(r) == [config |-> r.config, gen |-> r.gen, ends |-> Ends(r.config)]


Accepted(r) ==
  /\ sent' = sent \ {r}
  /\ ident' = IF gen[r.line] = r.gen THEN [ident EXCEPT ![r.line] = Published(r)] ELSE ident
  /\ UNCHANGED <<row, cached, owned, gen, request, requests, voided>>

(* The registration's time has passed: the identity is there, not current. *)
Lapses(t) ==
  /\ ident[t] # None /\ ident' = [ident EXCEPT ![t] = None]
  /\ UNCHANGED <<row, cached, owned, gen, sent, request, requests, voided>>

(* acquireLease, for a login, a reload or the heartbeat. *)
TakeLease(t) ==
  /\ row[t] # None /\ row[t].on /\ t \notin owned /\ owned' = owned \cup {t}
  /\ UNCHANGED <<row, cached, gen, ident, sent, request, requests, voided>>

(* markLeaseLost: the heartbeat finds another instance's name in the row. *)
LoseLease(t) ==
  /\ t \in owned /\ owned' = owned \ {t} /\ gen[t] < MaxGen /\ Void({t})
  /\ UNCHANGED <<row, cached, sent, request, requests>>

-----------------------------------------------------------------------------
(* The requests: each edits or reads the rows and then, with the lock, what
   is loaded. *)

(* trunkRegistrarIdentityChanged: not for a trunk there was none of. *)
Changed(old, new) == None \notin {old, new} /\ old # new

Begin(r) ==
  /\ request = Idle /\ requests < MaxRequests
  /\ requests' = requests + 1 /\ request' = r

Kept == UNCHANGED <<row, owned, sent, requests>>

(* CreateTrunk *)
Create(t, c, on) ==
  /\ row[t] = None /\ row' = [row EXCEPT ![t] = [config |-> c, on |-> on]]
  /\ Begin([op |-> "created", line |-> t, new |-> row'[t]])
  /\ UNCHANGED <<cached, owned, gen, ident, sent, voided>>

Created ==
  /\ request.op = "created" /\ request' = Idle
  /\ cached' = [cached EXCEPT ![request.line] = IF request.new.on THEN request.new.config ELSE @]
  /\ UNCHANGED <<gen, ident, voided>> /\ Kept

(* UpdateTrunk, with enabled set, cleared or left alone.  The handler refuses
   to move or disable a trunk whose calls it sees up; calls are not modelled. *)
Update(t, c, enable) ==
  LET new == [config |-> c, on |-> IF enable = "keep" THEN row[t].on ELSE enable = "on"]
  IN  /\ row[t] # None
      /\ row' = [row EXCEPT ![t] = new]
      /\ Begin([op |-> "updated", line |-> t, was |-> row[t].config, new |-> new, off |-> enable = "off"])
      /\ UNCHANGED <<cached, owned, gen, ident, sent, voided>>

Updated ==
  LET t == request.line
  IN  /\ request.op = "updated"
      /\ request' = IF request.off THEN [op |-> "logout", line |-> t] ELSE Idle
      /\ cached' = [cached EXCEPT ![t] = Loaded(request.new)]
      /\ Void(IF Changed(request.was, request.new.config) \/ ~request.new.on THEN {t} ELSE {})
      /\ Kept

(* UpsertAgentTrunk and UpsertAgentDeviceTrunk *)
Upsert(t) ==
  /\ Kind[t] # "plain" /\ row' = [row EXCEPT ![t] = [config |-> Home[t], on |-> TRUE]]
  /\ Begin([op |-> "read", line |-> t, new |-> row'[t]])
  /\ UNCHANGED <<cached, owned, gen, ident, sent, voided>>

(* RegisterTrunk reads the row; the lease and the REGISTER follow. *)
Register(t) ==
  /\ row[t] # None /\ row[t].on /\ Begin([op |-> "read", line |-> t, new |-> row[t]])
  /\ UNCHANGED <<row, cached, owned, gen, ident, sent, voided>>

(* Both put what they have read in the place of what is loaded. *)
Cached ==
  LET t == request.line
  IN  /\ request.op = "read" /\ request' = Idle
      /\ cached' = [cached EXCEPT ![t] = request.new.config]
      /\ Void(IF Changed(cached[t], request.new.config) THEN {t} ELSE {})
      /\ Kept

(* loadTrunks, for the start and for a refresh *)
Load ==
  /\ Begin([op |-> "loaded", new |-> [t \in Lines |-> Loaded(row[t])]])
  /\ UNCHANGED <<row, cached, owned, gen, ident, sent, voided>>

Replace ==
  /\ request.op = "loaded" /\ request' = Idle /\ cached' = request.new
  /\ Void({t \in Lines : \/ cached[t] # None /\ request.new[t] # cached[t]
                         \/ ident[t] # None /\ (cached[t] = None \/ request.new[t] # cached[t])})
  /\ Kept

(* UnregisterTrunk forgets the registration, then frees the lease. *)
Unregister(t) ==
  /\ row[t] # None /\ Begin([op |-> "logout", line |-> t])
  /\ UNCHANGED <<row, cached, owned, gen, ident, sent, voided>>

Forget ==
  /\ request.op = "logout" /\ request' = [request EXCEPT !.op = "release"]
  /\ owned' = owned \ {request.line} /\ Void({request.line})
  /\ UNCHANGED <<row, cached, sent, requests>>

Release ==
  /\ request.op = "release" /\ request' = Idle /\ owned' = owned \ {request.line}
  /\ UNCHANGED <<row, cached, gen, ident, sent, requests, voided>>

(* The gateway stops, and starts again with the rows and nothing else. *)
Restart ==
  /\ requests < MaxRequests /\ requests' = requests + 1 /\ UNCHANGED row
  /\ cached' = [t \in Lines |-> Loaded(row[t])] /\ owned' = {}
  /\ gen' = [t \in Lines |-> 0] /\ voided' = [t \in Lines |-> 0]
  /\ ident' = [t \in Lines |-> None] /\ sent' = {}
  /\ request' = Idle

-----------------------------------------------------------------------------
Next ==
  \/ \E r \in sent : Refused(r) \/ Accepted(r)
  \/ \E t \in Lines : Send(t) \/ Lapses(t) \/ TakeLease(t) \/ LoseLease(t)
  \/ \E t \in Lines, c \in Configs, on \in BOOLEAN : Create(t, c, on)
  \/ \E t \in Lines, c \in Configs, enable \in {"on", "off", "keep"} : Update(t, c, enable)
  \/ \E t \in Lines : Upsert(t) \/ Register(t) \/ Unregister(t)
  \/ Created \/ Updated \/ Cached \/ Load \/ Replace \/ Forget \/ Release \/ Restart

Spec == Init /\ [][Next]_vars

-----------------------------------------------------------------------------
(* RoutedRight, in two parts.  What the gateway remembers of a registration is
   true of the trunk as it is loaded now, and comes from a REGISTER sent after
   the trunk was last logged out, moved, disabled or lost
   (tryPublishRegistrarIdentity's generation), however REGISTERs, edits and
   reloads overlap. *)
IdentityFits ==
  \A t \in Lines : ident[t] # None => ident[t].config = cached[t] /\ ident[t].gen > voided[t]

(* What the INVITE says about a trunk, by all that the rules look at. *)
Evidence(t, i) ==
  <<[f \in {"ruri", "to"} |-> <<UserIs(t, i[f].user), HostIs(t, i[f].at), HostIs(t, i[f].at) /\ PortIs(t, i[f].at)>>],
    [f \in {"source", "via", "contact"} |-> <<Exact({t}, i[f]) # {}, Relaxed({t}, i[f]) # {}>>]>>

(* An INVITE that says the same of two trunks of different accounts goes to
   neither: ids, names and the order of the registrations decide nothing. *)
RoutedByEvidence ==
  \A t \in Eligible : \A u \in Eligible \ {t} : cached[t] # cached[u] =>
    \A i \in Invites : Evidence(t, i) = Evidence(u, i) => Match(i) \notin {t, u}

=============================================================================
