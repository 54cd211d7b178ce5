--------------------------- MODULE MowerHomeProofs ---------------------------
(***************************************************************************)
(* Proofs about MowerHome, for any callers, calls and sessions.            *)
(*                                                                         *)
(* HomeOK and LeaseIsCurrent are not inductive: an answer could install a  *)
(* session over the one that a lease was taken with, or one that is not    *)
(* the stored one.  It cannot, because there is one connect() and one      *)
(* discovery at a time, and because a connect() on its way has cleared the *)
(* session and a discovery on its way the bindings; with them went every   *)
(* lease.                                                                  *)
(***************************************************************************)
EXTENDS MowerHome, TLAPS

Connecting == {"load", "validate", "email", "settings", "token", "password", "save"}
Discovering == {"list", "peer"}

(* Who is where: the module admits one connect() and one discovery.        *)
OneOfEach ==
    /\ \A c \in Calls : calls[c].kind = "connect" => connecting = c
    /\ \A c \in Calls : calls[c].kind = "discover" => discovering
    /\ \A c, d \in Calls : calls[c].kind = "discover" /\ calls[d].kind = "discover" => c = d
KindAt(call) ==
    /\ call.at \in Connecting => call.kind = "connect"
    /\ call.at \in Discovering => call.kind = "discover"
    /\ call.at = "use" => call.kind \in Uses /\ call.bindings # None
    /\ call.at # "idle" => call.number \in Numbers /\ call.kind # "none"

(* A connect() on its way has no session yet; the one it tries is stored.  *)
Unconnected(call) ==
    /\ call.at \in Connecting => session = None
    /\ call.at = "validate" => store = call.session
Undiscovered(call) == call.at \in Discovering => bindings = None

(* A lease that was not revoked is of the session and bindings in use.     *)
Current(call) ==
    call.at = "use" /\ ~call.revoked => session = call.session /\ bindings = call.bindings

Cleared ==
    lifecycle \in {"cleared", "closed"} =>
        session = None /\ bindings = None /\ \A c \in Calls : ~Pending(c)

CallOK(c) == KindAt(calls[c]) /\ Unconnected(calls[c]) /\ Undiscovered(calls[c]) /\ Current(calls[c])

HomeInv ==
    /\ TypeOK /\ SessionIsSaved /\ ShutdownIsQuiet /\ Cleared
    /\ OneOfEach /\ \A c \in Calls : CallOK(c)

-----------------------------------------------------------------------------
(* How calls move: one to its next place, the others as they are or with   *)
(* their leases revoked.                                                   *)

LEMMA RevokedCalls ==
    ASSUME TypeOK
    PROVE /\ Revoked \in [Calls -> CallState]
          /\ \A c \in Calls :
                /\ Revoked[c].kind = calls[c].kind /\ Revoked[c].at = calls[c].at
                /\ Revoked[c].number = calls[c].number
                /\ Revoked[c].session = calls[c].session
                /\ Revoked[c].bindings = calls[c].bindings
                /\ Revoked[c].at = "use" => Revoked[c].revoked
<1>1. \A c \in Calls : [calls[c] EXCEPT !.revoked = TRUE] \in CallState
  BY ZenonT(60) DEF TypeOK, CallState
<1> QED
  BY <1>1 DEF TypeOK, CallState, Revoked

LEMMA IdleCall == Idle \in CallState /\ Idle.kind = "none" /\ Idle.at = "idle"
BY MowerHomeAssumption DEF Idle, CallState

(* A set of calls in which c may move. *)
From(cs) ==
    /\ cs \in [Calls -> CallState]
    /\ \A c \in Calls : cs[c].kind = calls[c].kind /\ cs[c].at = calls[c].at
                        /\ cs[c].number = calls[c].number /\ cs[c].session = calls[c].session
                        /\ cs[c].bindings = calls[c].bindings

LEMMA FromCalls == TypeOK => From(calls) /\ From(Revoked)
BY RevokedCalls DEF From, TypeOK

LEMMA GoesCalls ==
    ASSUME NEW cs, From(cs), NEW c \in Calls,
           NEW at \in Connecting \cup Discovering \cup {"returned"}, Goes(cs, c, at)
    PROVE /\ calls' \in [Calls -> CallState]
          /\ calls'[c].at = at
          /\ calls'[c].kind = calls[c].kind /\ calls'[c].number = calls[c].number
          /\ calls'[c].session = calls[c].session
          /\ \A d \in Calls \ {c} : calls'[d] = cs[d]
<1>1. [cs[c] EXCEPT !.at = at] \in CallState
  BY DEF From, CallState, Connecting, Discovering, Requests
<1> QED
  BY <1>1 DEF From, Goes, CallState

LEMMA EndsCalls ==
    ASSUME NEW cs, From(cs), NEW c \in Calls, NEW outcome \in {"ok", "failed"},
           Ends(cs, c, outcome)
    PROVE /\ calls' \in [Calls -> CallState]
          /\ calls'[c].at \in {"disconnect", "returned"}
          /\ calls'[c].kind = calls[c].kind /\ calls'[c].number = calls[c].number
          /\ calls'[c].outcome = outcome
          /\ \A d \in Calls \ {c} : calls'[d] = cs[d]
<1> DEFINE x == [Idle EXCEPT !.kind = cs[c].kind, !.number = cs[c].number,
                     !.outcome = outcome,
                     !.at = IF cs[c].kind = "open" /\ outcome = "failed"
                              THEN "disconnect" ELSE "returned"]
<1>1. x \in CallState
  BY IdleCall DEF From, CallState, Idle
<1>2. /\ x.at \in {"disconnect", "returned"} /\ x.kind = cs[c].kind
      /\ x.number = cs[c].number /\ x.outcome = outcome
  BY DEF Idle
<1>3. calls' = [cs EXCEPT ![c] = x]
  BY DEF Ends
<1> QED
  BY <1>1, <1>2, <1>3 DEF From
(* The calls that do not move stay in order: when session and bindings stay *)
(* the same, when they are cleared with the leases, and when the one        *)
(* connect() or the one discovery installs what was missing.                *)

LEMMA KeptOK ==
    ASSUME NEW d \in Calls, CallOK(d), calls'[d] = calls[d],
           UNCHANGED <<session, bindings>>,
           calls[d].kind # "connect" \/ store' = store
    PROVE CallOK(d)'
BY DEF CallOK, KindAt, Unconnected, Undiscovered, Current, Connecting

LEMMA RevokedOK ==
    ASSUME TypeOK, NEW d \in Calls, CallOK(d), calls'[d] = Revoked[d],
           session' \in {session, None}, bindings' = None, store' = store
    PROVE CallOK(d)'
BY RevokedCalls DEF CallOK, KindAt, Unconnected, Undiscovered, Current, Connecting, Discovering

LEMMA InstalledOK ==
    ASSUME TypeOK, OneOfEach, NEW c \in Calls, NEW d \in Calls \ {c}, CallOK(d), calls'[d] = calls[d],
           \/ session = None /\ UNCHANGED bindings /\ calls[c].kind = "connect"
           \/ bindings = None /\ UNCHANGED <<session, store>> /\ calls[c].kind = "discover"
    PROVE CallOK(d)'
<1>1. calls[c].kind = "connect" => calls[d].kind # "connect"
  BY DEF OneOfEach
<1>2. calls[c].kind = "discover" => calls[d].kind # "discover"
  BY DEF OneOfEach
<1>3. calls[d].at = "use" => calls[d].session # None /\ calls[d].bindings # None
  BY DEF TypeOK, CallOK, KindAt
<1> QED
  BY <1>1, <1>2, <1>3
     DEF CallOK, KindAt, Unconnected, Undiscovered, Current, Connecting, Discovering

(* Kinds stay with their calls until they return. *)
LEMMA KindsStay ==
    ASSUME OneOfEach, UNCHANGED <<connecting, discovering>>,
           \A d \in Calls : calls'[d].kind = calls[d].kind
    PROVE OneOfEach'
BY DEF OneOfEach

-----------------------------------------------------------------------------
(* Every action preserves the invariant.                                   *)

LEMMA IssueInv ==
    ASSUME HomeInv, NEW c \in Calls, NEW kind \in {"connect", "discover"} \cup Uses,
           Issue(c, kind)
    PROVE /\ calls' \in [Calls -> CallState] /\ made' \in 0 .. MaxCalls /\ made' \in Numbers
          /\ calls'[c].kind = kind /\ calls'[c].at = "starts"
          /\ \A d \in Calls \ {c} : calls'[d] = calls[d]
          /\ \A d \in Calls : CallOK(d)'
          /\ lifecycle = "open"
<1> DEFINE x == [Idle EXCEPT !.kind = kind, !.at = "starts", !.number = made + 1]
<1>1. made + 1 \in Numbers /\ made + 1 \in 0 .. MaxCalls
  BY MowerHomeAssumption DEF Issue, HomeInv, TypeOK, Numbers
<1>2. x \in CallState /\ x.kind = kind /\ x.at = "starts" /\ x.number = made + 1
  BY <1>1, IdleCall DEF CallState, Idle
<1>3. calls' = [calls EXCEPT ![c] = x]
  BY DEF Issue
<1>4. calls'[c] = x /\ calls' \in [Calls -> CallState] /\ \A d \in Calls \ {c} : calls'[d] = calls[d]
  BY <1>2, <1>3 DEF HomeInv, TypeOK
<1>5. CallOK(c)'
  BY <1>1, <1>2, <1>4
     DEF CallOK, KindAt, Unconnected, Undiscovered, Current, Connecting, Discovering, Uses
<1>6. ASSUME NEW d \in Calls \ {c} PROVE CallOK(d)'
  BY <1>4, <1>6, KeptOK DEF HomeInv, Issue
<1> QED
  BY <1>1, <1>2, <1>4, <1>5, <1>6 DEF Issue

LEMMA CallsStart ==
    ASSUME HomeInv, NEW c \in Calls, Connect(c) \/ Discover(c) \/ Use(c)
    PROVE HomeInv'
<1>1. PICK kind \in {"connect", "discover"} \cup Uses :
        /\ Issue(c, kind)
        /\ kind = "connect" => Connect(c)
        /\ kind = "discover" => Discover(c)
        /\ kind \in Uses => Use(c)
  BY DEF Connect, Discover, Use, Uses
<1>2. /\ calls' \in [Calls -> CallState] /\ made' \in 0 .. MaxCalls /\ made' \in Numbers
      /\ calls'[c].kind = kind /\ calls'[c].at = "starts"
      /\ \A d \in Calls \ {c} : calls'[d] = calls[d]
      /\ \A d \in Calls : CallOK(d)'
      /\ lifecycle = "open"
  BY <1>1, IssueInv
<1>3. UNCHANGED <<lifecycle, state, session, bindings, age, logins, store>>
  BY <1>1 DEF Issue
<1>4. locals' \subseteq Numbers /\ connecting' \in Calls \cup {None} /\ discovering' \in BOOLEAN
  BY <1>1, <1>2 DEF Connect, Discover, Use, Uses, HomeInv, TypeOK, Issue
<1>5. OneOfEach'
  <2>1. CASE kind = "connect"
    <3>1. connecting = None /\ connecting' = c /\ UNCHANGED discovering
      BY <1>1, <2>1 DEF Connect
    <3>2. \A d \in Calls : calls[d].kind # "connect"
      BY <3>1, MowerHomeAssumption DEF HomeInv, TypeOK, OneOfEach
    <3> QED
      BY <1>2, <2>1, <3>1, <3>2 DEF HomeInv, OneOfEach
  <2>2. CASE kind = "discover"
    BY <1>1, <1>2, <2>2 DEF Discover, HomeInv, OneOfEach
  <2>3. CASE kind \in Uses
    BY <1>1, <1>2, <2>3 DEF Use, Uses, HomeInv, OneOfEach
  <2> QED
    BY <2>1, <2>2, <2>3
<1>6. TypeOK'
  BY <1>2, <1>3, <1>4 DEF HomeInv, TypeOK
<1> QED
  BY <1>2, <1>3, <1>5, <1>6 DEF HomeInv, SessionIsSaved, ShutdownIsQuiet, Cleared
(* A call of connect or discover goes to its next place, or ends, with the  *)
(* session and the bindings as they are.                                    *)
LEMMA MovesInv ==
    ASSUME HomeInv, NEW c \in Calls,
           calls' \in [Calls -> CallState],
           calls'[c].kind = calls[c].kind, calls'[c].number = calls[c].number,
           \A d \in Calls \ {c} : calls'[d] = calls[d],
           calls[c].at # "idle", calls'[c].at # "use",
           calls'[c].at \in Connecting => calls[c].kind = "connect" /\ session = None,
           calls'[c].at \in Discovering => calls[c].kind = "discover" /\ bindings = None,
           calls'[c].at = "validate" => calls'[c].session = store,
           calls'[c].at \in {"validate", "token", "password", "save"} => calls'[c].session # None,
           Pending(c)' => Pending(c),
           logins' \in 0 .. MaxLogins,
           UNCHANGED <<mowers, home, age, store, made>>
    PROVE HomeInv'
<1>1. CallOK(c)'
  BY DEF HomeInv, CallOK, KindAt, Unconnected, Undiscovered, Current, home, Connecting
<1>2. ASSUME NEW d \in Calls \ {c} PROVE CallOK(d)'
  BY <1>2, KeptOK DEF HomeInv, home
<1>3. \A d \in Calls : calls'[d].kind = calls[d].kind
  OBVIOUS
<1>4. OneOfEach'
  BY <1>3, KindsStay DEF HomeInv, mowers, home
<1>5. TypeOK'
  BY DEF HomeInv, TypeOK, mowers, home
<1>6. \A d \in Calls : Pending(d)' => Pending(d)
  BY DEF Pending
<1> QED
  BY <1>1, <1>2, <1>4, <1>5, <1>6
     DEF HomeInv, SessionIsSaved, ShutdownIsQuiet, Cleared, mowers, home

LEMMA EndsInv ==
    ASSUME HomeInv, NEW c \in Calls, NEW outcome \in {"ok", "failed"},
           Ends(calls, c, outcome), calls[c].at # "idle",
           UNCHANGED <<mowers, home, age, logins, store, made>>
    PROVE HomeInv'
<1>1. From(calls)
  BY FromCalls DEF HomeInv
<1>2. /\ calls' \in [Calls -> CallState]
      /\ calls'[c].at \in {"disconnect", "returned"}
      /\ calls'[c].kind = calls[c].kind /\ calls'[c].number = calls[c].number
      /\ \A d \in Calls \ {c} : calls'[d] = calls[d]
  BY <1>1, EndsCalls
<1>3. ~Pending(c)' /\ logins' \in 0 .. MaxLogins
  BY <1>2 DEF Pending, Requests, HomeInv, TypeOK
<1> QED
  BY <1>2, <1>3, MovesInv DEF Connecting, Discovering

(* A refused session, a cleared one and bindings that are dropped take the  *)
(* leases with them.                                                        *)
LEMMA ClearsInv ==
    ASSUME HomeInv, NEW c \in Calls,
           calls' \in [Calls -> CallState],
           calls'[c].kind = calls[c].kind, calls'[c].number = calls[c].number,
           \A d \in Calls \ {c} : calls'[d] = Revoked[d],
           calls[c].at # "idle", calls'[c].at \notin {"use", "validate", "token", "password", "save"},
           calls'[c].at \in Connecting => calls[c].kind = "connect" /\ session' = None,
           calls'[c].at \in Discovering => calls[c].kind = "discover",
           session' \in {session, None}, bindings' = None,
           Pending(c)' => Pending(c),
           UNCHANGED <<mowers, discovering, age, logins, store, made>>
    PROVE HomeInv'
<1>1. CallOK(c)'
  BY DEF HomeInv, CallOK, KindAt, Unconnected, Undiscovered, Current, Connecting
<1>2. ASSUME NEW d \in Calls \ {c} PROVE CallOK(d)'
  BY <1>2, RevokedOK DEF HomeInv
<1>3. \A d \in Calls \ {c} : calls'[d].kind = calls[d].kind /\ calls'[d].at = calls[d].at
                             /\ calls'[d].session = calls[d].session
  BY RevokedCalls DEF HomeInv
<1>4. \A d \in Calls : calls'[d].kind = calls[d].kind
  BY <1>3
<1>5. OneOfEach'
  BY <1>4, KindsStay DEF HomeInv, mowers
<1>6. TypeOK'
  BY <1>3 DEF HomeInv, TypeOK, mowers
<1>7. \A d \in Calls : Pending(d)' => Pending(d)
  BY <1>3 DEF Pending
<1> QED
  BY <1>1, <1>2, <1>5, <1>6, <1>7
     DEF HomeInv, SessionIsSaved, ShutdownIsQuiet, Cleared, mowers

LEMMA EndsClearing ==
    ASSUME HomeInv, NEW c \in Calls, Ends(Revoked, c, "failed"), calls[c].at # "idle",
           session' \in {session, None}, bindings' = None,
           UNCHANGED <<mowers, discovering, age, logins, store, made>>
    PROVE HomeInv'
<1>1. From(Revoked)
  BY FromCalls DEF HomeInv
<1>2. /\ calls' \in [Calls -> CallState]
      /\ calls'[c].at \in {"disconnect", "returned"}
      /\ calls'[c].kind = calls[c].kind /\ calls'[c].number = calls[c].number
      /\ \A d \in Calls \ {c} : calls'[d] = Revoked[d]
  BY <1>1, EndsCalls
<1>3. ~Pending(c)'
  BY <1>2 DEF Pending, Requests
<1> QED
  BY <1>2, <1>3, ClearsInv DEF Connecting, Discovering

LEMMA RequiredInv ==
    ASSUME HomeInv, NEW c \in Calls, Required(c), calls[c].at # "idle",
           UNCHANGED <<mowers, session, discovering, age, logins, store, made>>
    PROVE HomeInv'
<1>1. CASE session = None \/ age[session] = "expired"
  BY <1>1, EndsClearing DEF Required
<1>2. CASE ~(session = None \/ age[session] = "expired")
  BY <1>2, EndsInv DEF Required, home
<1> QED
  BY <1>1, <1>2
-----------------------------------------------------------------------------

LEMMA BeginsInv ==
    ASSUME HomeInv, NEW c \in Calls, Begins(c)
    PROVE HomeInv'
<1>1. /\ calls[c].at = "starts" /\ Pending(c)
      /\ UNCHANGED <<mowers, discovering, age, logins, store, made>>
  BY DEF Begins, Pending
<1>2. CASE Ends(calls, c, "failed") /\ UNCHANGED <<session, bindings>>
  BY <1>1, <1>2, EndsInv DEF home
<1>3. CASE Ends(calls, c, "ok") /\ UNCHANGED <<session, bindings>>
  BY <1>1, <1>3, EndsInv DEF home
<1>4. CASE calls[c].kind = "connect" /\ Clear /\ Goes(Revoked, c, "load")
  <2>1. From(Revoked) /\ "load" \in Connecting
    BY FromCalls DEF HomeInv, Connecting
  <2>2. /\ calls' \in [Calls -> CallState] /\ calls'[c].at = "load"
        /\ calls'[c].kind = calls[c].kind /\ calls'[c].number = calls[c].number
        /\ \A d \in Calls \ {c} : calls'[d] = Revoked[d]
    BY <1>4, <2>1, GoesCalls
  <2> QED
    BY <1>1, <1>4, <2>2, ClearsInv DEF Clear, Discovering
<1>5. CASE Required(c) /\ UNCHANGED session
  BY <1>1, <1>5, RequiredInv
<1>6. CASE calls[c].kind = "discover" /\ bindings' = None /\ UNCHANGED session
           /\ Goes(Revoked, c, "list")
  <2>1. From(Revoked) /\ "list" \in Discovering
    BY FromCalls DEF HomeInv, Discovering
  <2>2. /\ calls' \in [Calls -> CallState] /\ calls'[c].at = "list"
        /\ calls'[c].kind = calls[c].kind /\ calls'[c].number = calls[c].number
        /\ \A d \in Calls \ {c} : calls'[d] = Revoked[d]
    BY <1>6, <2>1, GoesCalls
  <2> QED
    BY <1>1, <1>6, <2>2, ClearsInv DEF Connecting
<1>7. CASE /\ calls[c].kind \notin {"connect", "discover"} /\ Connected /\ bindings # None
           /\ UNCHANGED <<session, bindings>>
           /\ calls' = [calls EXCEPT ![c].at = "use", ![c].session = session,
                                     ![c].bindings = bindings]
  <2>1. session \in Sessions /\ bindings \in Numbers
    BY <1>7 DEF Connected, HomeInv, TypeOK
  <2>2. [calls[c] EXCEPT !.at = "use", !.session = session, !.bindings = bindings] \in CallState
    BY ZenonT(60), <2>1 DEF HomeInv, TypeOK, CallState
  <2>3. /\ calls' \in [Calls -> CallState] /\ calls'[c].at = "use"
        /\ calls'[c].session = session /\ calls'[c].bindings = bindings
        /\ calls'[c].kind = calls[c].kind /\ calls'[c].number = calls[c].number
        /\ \A d \in Calls \ {c} : calls'[d] = calls[d]
    BY <1>7, <2>2 DEF HomeInv, TypeOK, CallState
  <2>4. calls[c].kind \in Uses /\ calls[c].number \in Numbers
    <3>1. CallOK(c) /\ calls[c].kind \in {"none", "connect", "discover"} \cup Uses
      BY DEF HomeInv, TypeOK, CallState
    <3>2. calls[c].kind # "none"
      BY <1>1, <3>1 DEF CallOK, KindAt
    <3> QED
      BY <1>1, <1>7, <3>1, <3>2 DEF CallOK, KindAt
  <2>5. CallOK(c)'
    BY <1>1, <1>7, <2>1, <2>3, <2>4
       DEF CallOK, KindAt, Unconnected, Undiscovered, Current, Connecting, Discovering, Uses
  <2>6. ASSUME NEW d \in Calls \ {c} PROVE CallOK(d)'
    BY <1>1, <1>7, <2>3, <2>6, KeptOK DEF HomeInv
  <2>7. OneOfEach'
    BY <1>1, <2>3, KindsStay DEF HomeInv, mowers
  <2>8. TypeOK'
    BY <1>1, <1>7, <2>1, <2>3, MowerHomeAssumption DEF HomeInv, TypeOK, mowers, Sessions
  <2>9. \A d \in Calls : Pending(d)' => Pending(d)
    BY <1>1, <2>3 DEF Pending
  <2> QED
    BY <1>1, <1>7, <2>5, <2>6, <2>7, <2>8, <2>9
       DEF HomeInv, SessionIsSaved, ShutdownIsQuiet, Cleared, mowers
<1> QED
  BY <1>1, <1>2, <1>3, <1>4, <1>5, <1>6, <1>7 DEF Begins
LEMMA ConnectingCall ==
    ASSUME HomeInv, NEW c \in Calls, calls[c].at \in Connecting
    PROVE /\ calls[c].kind = "connect" /\ session = None /\ Pending(c)
          /\ calls[c].at = "validate" => store = calls[c].session
BY DEF HomeInv, CallOK, KindAt, Unconnected, Pending, Requests, Connecting

LEMMA DiscoveringCall ==
    ASSUME HomeInv, NEW c \in Calls, calls[c].at \in Discovering
    PROVE calls[c].kind = "discover" /\ bindings = None /\ Pending(c)
BY DEF HomeInv, CallOK, KindAt, Undiscovered, Pending, Requests, Discovering

LEMMA LoadedInv ==
    ASSUME HomeInv, NEW c \in Calls, Loaded(c)
    PROVE HomeInv'
<1>1. calls[c].at = "load" /\ UNCHANGED <<mowers, home, age, logins, store, made>>
  BY DEF Loaded
<1>2. calls[c].kind = "connect" /\ session = None /\ Pending(c) /\ From(calls)
  BY <1>1, ConnectingCall, FromCalls DEF Connecting, HomeInv
<1>3. logins' \in 0 .. MaxLogins
  BY <1>1 DEF HomeInv, TypeOK
<1>4. CASE Ends(calls, c, "failed")
  BY <1>1, <1>4, EndsInv
<1>5. CASE Goes(calls, c, "email")
  <2>1. "email" \in Connecting
    BY DEF Connecting
  <2>2. /\ calls' \in [Calls -> CallState] /\ calls'[c].at = "email"
        /\ calls'[c].kind = calls[c].kind /\ calls'[c].number = calls[c].number
        /\ \A d \in Calls \ {c} : calls'[d] = calls[d]
    BY <1>2, <1>5, <2>1, GoesCalls
  <2> QED
    BY <1>1, <1>2, <1>3, <2>2, MovesInv DEF Discovering
<1>6. CASE store # None /\ calls' = [calls EXCEPT ![c].at = "validate", ![c].session = store]
  <2>1. [calls[c] EXCEPT !.at = "validate", !.session = store] \in CallState
    BY ZenonT(60) DEF HomeInv, TypeOK, CallState, Requests
  <2>2. /\ calls' \in [Calls -> CallState] /\ calls'[c].at = "validate"
        /\ calls'[c].session = store
        /\ calls'[c].kind = calls[c].kind /\ calls'[c].number = calls[c].number
        /\ \A d \in Calls \ {c} : calls'[d] = calls[d]
    BY <1>6, <2>1 DEF HomeInv, TypeOK, CallState
  <2> QED
    BY <1>1, <1>2, <1>3, <1>6, <2>2, MovesInv DEF Discovering
<1> QED
  BY <1>4, <1>5, <1>6 DEF Loaded

(* The one connect() installs a session that the store holds.               *)
LEMMA ConnectedInv ==
    ASSUME HomeInv, NEW c \in Calls, calls[c].at \in {"validate", "save"},
           Ends(calls, c, "ok"), session' = calls[c].session, store' = session',
           UNCHANGED <<mowers, bindings, discovering, age, logins, made>>
    PROVE HomeInv'
<1>1. calls[c].kind = "connect" /\ session = None /\ Pending(c) /\ From(calls)
  BY ConnectingCall, FromCalls DEF Connecting, HomeInv
<1>2. /\ calls' \in [Calls -> CallState]
      /\ calls'[c].at \in {"disconnect", "returned"}
      /\ calls'[c].kind = calls[c].kind /\ calls'[c].number = calls[c].number
      /\ \A d \in Calls \ {c} : calls'[d] = calls[d]
  BY <1>1, EndsCalls
<1>3. CallOK(c)'
  BY <1>2 DEF HomeInv, CallOK, KindAt, Unconnected, Undiscovered, Current, Connecting, Discovering
<1>4. ASSUME NEW d \in Calls \ {c} PROVE CallOK(d)'
  BY <1>1, <1>2, <1>4, InstalledOK DEF HomeInv
<1>5. OneOfEach'
  BY <1>2, KindsStay DEF HomeInv, mowers
<1>6. session' \in Sessions
  BY DEF HomeInv, TypeOK, CallState
<1>7. TypeOK'
  BY <1>2, <1>6 DEF HomeInv, TypeOK, mowers
<1>8. lifecycle \notin {"cleared", "closed"}
  BY <1>1 DEF HomeInv, Cleared
<1> QED
  BY <1>3, <1>4, <1>5, <1>7, <1>8 DEF HomeInv, SessionIsSaved, ShutdownIsQuiet, Cleared, mowers

LEMMA SavedInv ==
    ASSUME HomeInv, NEW c \in Calls, Saved(c)
    PROVE HomeInv'
<1>1. calls[c].at = "save" /\ UNCHANGED <<mowers, bindings, discovering, age, logins, made>>
  BY DEF Saved
<1>2. calls[c].kind = "connect" /\ session = None /\ Pending(c) /\ From(calls)
  BY <1>1, ConnectingCall, FromCalls DEF Connecting, HomeInv
<1>3. CASE store' = calls[c].session /\ session' = calls[c].session /\ Ends(calls, c, "ok")
  BY <1>1, <1>3, ConnectedInv
<1>4. CASE /\ store' \in {store, calls[c].session} /\ UNCHANGED session
           /\ Ends(calls, c, "failed")
  <2>2. /\ calls' \in [Calls -> CallState]
        /\ calls'[c].at \in {"disconnect", "returned"}
        /\ calls'[c].kind = calls[c].kind /\ calls'[c].number = calls[c].number
        /\ \A d \in Calls \ {c} : calls'[d] = calls[d]
    BY <1>2, <1>4, EndsCalls
  <2>3. CallOK(c)'
    BY <1>1, <1>2, <2>2
       DEF HomeInv, CallOK, KindAt, Unconnected, Undiscovered, Current, Connecting, Discovering
  <2>4. ASSUME NEW d \in Calls \ {c} PROVE CallOK(d)'
    BY <1>1, <1>2, <1>4, <2>2, <2>4, InstalledOK DEF HomeInv
  <2>5. OneOfEach'
    BY <1>1, <2>2, KindsStay DEF HomeInv, mowers
  <2>6. store' \in Sessions \cup {None}
    BY <1>4 DEF HomeInv, TypeOK, CallState
  <2>7. TypeOK'
    BY <1>1, <1>4, <2>2, <2>6 DEF HomeInv, TypeOK, mowers
  <2>8. lifecycle \notin {"cleared", "closed"}
    BY <1>2 DEF HomeInv, Cleared
  <2> QED
    BY <1>1, <1>2, <1>4, <2>3, <2>4, <2>5, <2>7, <2>8
       DEF HomeInv, SessionIsSaved, ShutdownIsQuiet, Cleared, mowers
<1> QED
  BY <1>3, <1>4 DEF Saved
LEMMA SucceedsInv ==
    ASSUME HomeInv, NEW c \in Calls, Succeeds(c)
    PROVE HomeInv'
<1>1. UNCHANGED <<mowers, discovering, age, store, made>> /\ From(calls)
  BY FromCalls DEF Succeeds, HomeInv
<1>2. CASE Validated(c)
  <2>1. calls[c].at = "validate" /\ UNCHANGED <<bindings, logins>>
    BY <1>2 DEF Validated
  <2>2. calls[c].kind = "connect" /\ session = None /\ Pending(c) /\ store = calls[c].session
    BY <2>1, ConnectingCall DEF Connecting
  <2>3. CASE session' = calls[c].session /\ Ends(calls, c, "ok")
    BY <1>1, <2>1, <2>2, <2>3, ConnectedInv
  <2>4. CASE UNCHANGED session /\ Goes(calls, c, "email")
    <3>1. "email" \in Connecting
      BY DEF Connecting
    <3>2. /\ calls' \in [Calls -> CallState] /\ calls'[c].at = "email"
          /\ calls'[c].kind = calls[c].kind /\ calls'[c].number = calls[c].number
          /\ \A d \in Calls \ {c} : calls'[d] = calls[d]
      BY <1>1, <2>4, <3>1, GoesCalls
    <3>3. logins' \in 0 .. MaxLogins
      BY <2>1 DEF HomeInv, TypeOK
    <3> QED
      BY <1>1, <2>1, <2>2, <2>4, <3>2, <3>3, MovesInv DEF Discovering, home
  <2> QED
    BY <1>2, <2>3, <2>4 DEF Validated
<1>3. CASE LoggedIn(c)
  <2>1. calls[c].at \in {"email", "settings", "token", "password"} /\ UNCHANGED <<session, bindings>>
    BY <1>3 DEF LoggedIn, SessionMade, NextRequest
  <2>2. calls[c].kind = "connect" /\ session = None /\ Pending(c)
    BY <2>1, ConnectingCall DEF Connecting
  <2>3. CASE SessionMade(c)
    <3>1. /\ logins' = logins + 1 /\ logins < MaxLogins
          /\ calls' = [calls EXCEPT ![c].at = "token", ![c].session = logins + 1]
      BY <2>3 DEF SessionMade
    <3>2. logins' \in 0 .. MaxLogins /\ logins + 1 \in Sessions /\ logins + 1 # None
      BY <3>1, MowerHomeAssumption DEF HomeInv, TypeOK, Sessions
    <3>3. [calls[c] EXCEPT !.at = "token", !.session = logins + 1] \in CallState
      BY ZenonT(60), <3>2 DEF HomeInv, TypeOK, CallState, Requests
    <3>4. /\ calls' \in [Calls -> CallState] /\ calls'[c].at = "token"
          /\ calls'[c].session # None
          /\ calls'[c].kind = calls[c].kind /\ calls'[c].number = calls[c].number
          /\ \A d \in Calls \ {c} : calls'[d] = calls[d]
      BY <3>1, <3>2, <3>3 DEF HomeInv, TypeOK, CallState
    <3> QED
      BY <1>1, <2>1, <2>2, <3>2, <3>4, MovesInv DEF Discovering, home
  <2>4. CASE ~SessionMade(c)
    <3>1. PICK at \in {"settings", "password", "save"} :
            /\ Goes(calls, c, at) /\ UNCHANGED logins
            /\ at # "settings" => calls[c].at \in {"token", "password"}
      BY <1>3, <2>1, <2>4 DEF LoggedIn, NextRequest
    <3>2. at \in Connecting
      BY DEF Connecting
    <3>3. /\ calls' \in [Calls -> CallState] /\ calls'[c].at = at
          /\ calls'[c].session = calls[c].session
          /\ calls'[c].kind = calls[c].kind /\ calls'[c].number = calls[c].number
          /\ \A d \in Calls \ {c} : calls'[d] = calls[d]
      BY <1>1, <3>1, <3>2, GoesCalls
    <3>4. logins' \in 0 .. MaxLogins
      BY <3>1 DEF HomeInv, TypeOK
    <3>5. at # "settings" => calls[c].session # None
      BY <3>1 DEF HomeInv, TypeOK
    <3> QED
      BY <1>1, <2>1, <2>2, <3>1, <3>3, <3>4, <3>5, MovesInv DEF Discovering, home
  <2> QED
    BY <2>3, <2>4
<1>4. CASE Discovered(c)
  <2>1. calls[c].at \in Discovering /\ UNCHANGED <<session, logins>>
    BY <1>4 DEF Discovered, Discovering
  <2>2. calls[c].kind = "discover" /\ bindings = None /\ Pending(c)
    BY <2>1, DiscoveringCall
  <2>3. CASE Goes(calls, c, "peer") /\ UNCHANGED bindings
    <3>1. "peer" \in Discovering
      BY DEF Discovering
    <3>2. /\ calls' \in [Calls -> CallState] /\ calls'[c].at = "peer"
          /\ calls'[c].kind = calls[c].kind /\ calls'[c].number = calls[c].number
          /\ \A d \in Calls \ {c} : calls'[d] = calls[d]
      BY <1>1, <2>3, <3>1, GoesCalls
    <3>3. logins' \in 0 .. MaxLogins
      BY <2>1 DEF HomeInv, TypeOK
    <3> QED
      BY <1>1, <2>1, <2>2, <2>3, <3>2, <3>3, MovesInv DEF Connecting, Discovering, home
  <2>4. CASE bindings' = calls[c].number /\ Ends(calls, c, "ok")
    <3>2. /\ calls' \in [Calls -> CallState]
          /\ calls'[c].at \in {"disconnect", "returned"}
          /\ calls'[c].kind = calls[c].kind /\ calls'[c].number = calls[c].number
          /\ \A d \in Calls \ {c} : calls'[d] = calls[d]
      BY <1>1, <2>4, EndsCalls
    <3>3. CallOK(c)'
      BY <2>1, <3>2
         DEF HomeInv, CallOK, KindAt, Unconnected, Undiscovered, Current, Connecting, Discovering
    <3>4. ASSUME NEW d \in Calls \ {c} PROVE CallOK(d)'
      BY <1>1, <2>1, <2>2, <3>2, <3>4, InstalledOK DEF HomeInv
    <3>5. OneOfEach'
      BY <1>1, <3>2, KindsStay DEF HomeInv, mowers
    <3>6. bindings' \in Numbers
      BY <2>1, <2>4 DEF HomeInv, CallOK, KindAt, Discovering
    <3>7. TypeOK'
      BY <1>1, <2>1, <3>2, <3>6 DEF HomeInv, TypeOK, mowers
    <3>8. lifecycle \notin {"cleared", "closed"}
      BY <2>2 DEF HomeInv, Cleared
    <3> QED
      BY <1>1, <2>1, <3>3, <3>4, <3>5, <3>7, <3>8
         DEF HomeInv, SessionIsSaved, ShutdownIsQuiet, Cleared, mowers
  <2> QED
    BY <1>4, <2>3, <2>4 DEF Discovered
<1> QED
  BY <1>2, <1>3, <1>4 DEF Succeeds

LEMMA RefusedInv ==
    ASSUME HomeInv, NEW c \in Calls, Refused(c) \/ LendRefused(c)
    PROVE HomeInv'
<1>1. /\ calls[c].at # "idle" /\ Pending(c) /\ Clear
      /\ UNCHANGED <<mowers, discovering, age, logins, store, made>>
  BY DEF Refused, LendRefused, Pending, Requests
<1>2. CASE Ends(Revoked, c, "failed")
  BY <1>1, <1>2, EndsClearing DEF Clear
<1>3. CASE calls[c].at = "validate" /\ Goes(Revoked, c, "email")
  <2>1. From(Revoked) /\ "email" \in Connecting
    BY FromCalls DEF HomeInv, Connecting
  <2>2. /\ calls' \in [Calls -> CallState] /\ calls'[c].at = "email"
        /\ calls'[c].kind = calls[c].kind /\ calls'[c].number = calls[c].number
        /\ \A d \in Calls \ {c} : calls'[d] = Revoked[d]
    BY <1>3, <2>1, GoesCalls
  <2>3. calls[c].kind = "connect"
    BY <1>3, ConnectingCall DEF Connecting
  <2> QED
    BY <1>1, <1>3, <2>2, <2>3, ClearsInv DEF Clear, Discovering
<1> QED
  BY <1>2, <1>3 DEF Refused, LendRefused
LEMMA LendsInv ==
    ASSUME HomeInv, NEW c \in Calls, Fails(c) \/ Lent(c) \/ LendFails(c)
    PROVE HomeInv'
<1>1. calls[c].at # "idle" /\ UNCHANGED <<mowers, session, discovering, age, logins, store, made>>
  BY DEF Fails, Lent, LendFails, Requests, home
<1>2. CASE \E outcome \in {"ok", "failed"} : Ends(calls, c, outcome) /\ UNCHANGED bindings
  BY <1>1, <1>2, EndsInv DEF home
<1>3. CASE Required(c)
  BY <1>1, <1>3, RequiredInv
<1> QED
  BY <1>2, <1>3 DEF Fails, Lent, LendFails, home

LEMMA DisconnectedInv ==
    ASSUME HomeInv, NEW c \in Calls, Disconnected(c)
    PROVE HomeInv'
<1>1. /\ calls[c].at = "disconnect" /\ Goes(calls, c, "returned")
      /\ UNCHANGED <<mowers, home, age, logins, store, made>>
  BY DEF Disconnected
<1>2. From(calls)
  BY FromCalls DEF HomeInv
<1>3. /\ calls' \in [Calls -> CallState] /\ calls'[c].at = "returned"
      /\ calls'[c].kind = calls[c].kind /\ calls'[c].number = calls[c].number
      /\ \A d \in Calls \ {c} : calls'[d] = calls[d]
  BY <1>1, <1>2, GoesCalls
<1>4. logins' \in 0 .. MaxLogins /\ ~Pending(c)'
  BY <1>1, <1>3 DEF HomeInv, TypeOK, Pending, Requests
<1> QED
  BY <1>1, <1>3, <1>4, MovesInv DEF Connecting, Discovering

LEMMA ReturnedInv ==
    ASSUME HomeInv, NEW c \in Calls, Returned(c)
    PROVE HomeInv'
<1>1. /\ calls[c].at = "returned" /\ calls' = [calls EXCEPT ![c] = Idle]
      /\ UNCHANGED <<lifecycle, locals, session, bindings, age, logins, store, made>>
      /\ discovering' = (discovering /\ calls[c].kind # "discover")
      /\ connecting' = IF calls[c].kind = "connect" THEN None ELSE connecting
  BY DEF Returned
<1>2. /\ calls' \in [Calls -> CallState] /\ calls'[c].at = "idle" /\ calls'[c].kind = "none"
      /\ \A d \in Calls \ {c} : calls'[d] = calls[d]
  BY <1>1, IdleCall DEF HomeInv, TypeOK
<1>3. CallOK(c)'
  BY <1>2 DEF CallOK, KindAt, Unconnected, Undiscovered, Current, Connecting, Discovering
<1>4. ASSUME NEW d \in Calls \ {c} PROVE CallOK(d)'
  BY <1>1, <1>2, <1>4, KeptOK DEF HomeInv
<1>5. OneOfEach'
  <2>1. \A d \in Calls : calls'[d].kind # "none" => d # c /\ calls'[d].kind = calls[d].kind
    BY <1>2
  <2> QED
    BY ZenonT(60), <1>1, <2>1 DEF HomeInv, OneOfEach
<1>6. state' \in BOOLEAN
  BY DEF Returned, HomeInv, TypeOK, Connected
<1>7. discovering' \in BOOLEAN
  BY <1>1
<1>8. connecting' \in Calls \cup {None}
  BY <1>1 DEF HomeInv, TypeOK
<1>9. TypeOK'
  BY <1>1, <1>2, <1>6, <1>7, <1>8 DEF HomeInv, TypeOK
<1>10. \A d \in Calls : Pending(d)' => Pending(d)
  BY <1>1, <1>2 DEF Pending, Requests
<1>11. connecting = None => connecting' = None
  BY <1>1
<1> QED
  BY <1>1, <1>3, <1>4, <1>5, <1>9, <1>10, <1>11
     DEF HomeInv, SessionIsSaved, ShutdownIsQuiet, Cleared

(* Time, local sessions and shutdown move no call.                          *)
LEMMA AgingInv ==
    ASSUME HomeInv, NEW s \in Sessions, Aging(s)
    PROVE HomeInv'
<1>1. Older[age[s]] \in Ages
  BY DEF HomeInv, TypeOK, Ages, Older, Aging
<1>2. age' \in [Sessions -> Ages]
  BY <1>1 DEF HomeInv, TypeOK, Aging
<1> QED
  BY <1>2 DEF Aging, HomeInv, TypeOK, SessionIsSaved, ShutdownIsQuiet, Cleared, OneOfEach, CallOK,
              KindAt, Unconnected, Undiscovered, Current, Pending, mowers, home

LEMMA LocalClosesInv ==
    ASSUME HomeInv, NEW n \in Numbers, LocalCloses(n)
    PROVE HomeInv'
BY DEF LocalCloses, HomeInv, TypeOK, SessionIsSaved, ShutdownIsQuiet, Cleared, OneOfEach, CallOK,
       KindAt, Unconnected, Undiscovered, Current, Pending, home

LEMMA ShutdownInv ==
    ASSUME HomeInv, Shutdown \/ HomeCloses \/ Closes
    PROVE HomeInv'
<1> USE DEF HomeInv
<1>1. UNCHANGED <<connecting, locals, discovering, age, logins, store, calls, made>>
  BY DEF Shutdown, HomeCloses, Closes, home
<1>2. CASE HomeCloses
  <2>1. session' = None /\ bindings' = None /\ \A c \in Calls : ~Pending(c)
    BY <1>2 DEF HomeCloses, Clear
  <2>2. ASSUME NEW c \in Calls PROVE CallOK(c)'
    BY <1>1, <2>1, <2>2
       DEF CallOK, KindAt, Unconnected, Undiscovered, Current, Pending, Requests, Connecting,
           Discovering
  <2> QED
    BY <1>1, <1>2, <2>1, <2>2
       DEF HomeCloses, TypeOK, SessionIsSaved, ShutdownIsQuiet, Cleared, OneOfEach, Pending
<1>3. CASE Shutdown \/ Closes
  BY <1>1, <1>3
     DEF Shutdown, Closes, TypeOK, SessionIsSaved, ShutdownIsQuiet, Cleared, OneOfEach, CallOK,
         KindAt, Unconnected, Undiscovered, Current, Pending, home
<1> QED
  BY <1>2, <1>3

LEMMA InitInv == Init => HomeInv
<1> SUFFICES ASSUME Init PROVE HomeInv
  OBVIOUS
<1>1. calls \in [Calls -> CallState] /\ \A c \in Calls : calls[c] = Idle
  BY IdleCall DEF Init
<1>2. store \in Sessions \cup {None} /\ logins \in 0 .. MaxLogins /\ 0 \in 0 .. MaxCalls
  BY MowerHomeAssumption DEF Init, Sessions
<1>3. age \in [Sessions -> Ages]
  BY DEF Init, Ages
<1>4. TypeOK
  BY <1>1, <1>2, <1>3, IdleCall DEF Init, TypeOK
<1>5. \A c \in Calls : CallOK(c)
  BY <1>1, IdleCall
     DEF CallOK, KindAt, Unconnected, Undiscovered, Current, Connecting, Discovering
<1> QED
  BY <1>1, <1>4, <1>5, IdleCall
     DEF Init, HomeInv, SessionIsSaved, ShutdownIsQuiet, Cleared, OneOfEach

LEMMA NextInv == HomeInv /\ [Next]_vars => HomeInv'
<1> SUFFICES ASSUME HomeInv, [Next]_vars PROVE HomeInv'
  OBVIOUS
<1>1. ASSUME NEW c \in Calls, Step(c) PROVE HomeInv'
  BY <1>1, BeginsInv, LoadedInv, SavedInv, LendsInv, DisconnectedInv, ReturnedInv DEF Step
<1>2. ASSUME NEW c \in Calls,
             Connect(c) \/ Discover(c) \/ Use(c) \/ Succeeds(c) \/ Refused(c) \/ LendRefused(c)
      PROVE HomeInv'
  BY <1>2, CallsStart, SucceedsInv, RefusedInv
<1>3. CASE UNCHANGED vars
  BY <1>3 DEF vars, HomeInv, TypeOK, SessionIsSaved, ShutdownIsQuiet, Cleared, OneOfEach, CallOK,
              KindAt, Unconnected, Undiscovered, Current, Pending, mowers, home
<1> QED
  BY <1>1, <1>2, <1>3, AgingInv, LocalClosesInv, ShutdownInv DEF Next

LEMMA Invariant == Spec => []HomeInv
<1> QED
  BY InitInv, NextInv, PTL DEF Spec

-----------------------------------------------------------------------------
(* A use goes on until it ends itself.                                      *)

LEMMA UseStays ==
    ASSUME TypeOK, NEW c \in Calls, calls[c].at = "use",
           NEW d \in Calls \ {c}, NEW cs \in {calls, Revoked}, NEW x, calls' = [cs EXCEPT ![d] = x]
    PROVE calls'[c].at = "use"
<1>1. From(cs)
  BY FromCalls
<1> QED
  BY <1>1 DEF From

LEMMA OthersGo ==
    ASSUME TypeOK, NEW c \in Calls, calls[c].at = "use", NEW d \in Calls \ {c},
           \/ Connect(d) \/ Discover(d) \/ Use(d) \/ Step(d) \/ Succeeds(d) \/ Refused(d)
           \/ LendRefused(d)
    PROVE calls'[c].at = "use"
<1>1. ASSUME NEW cs \in {calls, Revoked}, NEW at, Goes(cs, d, at) PROVE calls'[c].at = "use"
  BY <1>1, UseStays DEF Goes
<1>2. ASSUME NEW cs \in {calls, Revoked}, NEW outcome, Ends(cs, d, outcome)
      PROVE calls'[c].at = "use"
  BY <1>2, UseStays DEF Ends
<1>3. Required(d) => calls'[c].at = "use"
  BY <1>2 DEF Required
<1>4. ASSUME NEW kind, Issue(d, kind) PROVE calls'[c].at = "use"
  BY <1>4, UseStays DEF Issue
<1>5. CASE Connect(d) \/ Discover(d) \/ Use(d)
  BY <1>4, <1>5 DEF Connect, Discover, Use
<1>6. CASE Begins(d)
  <2>1. CASE calls' = [calls EXCEPT ![d].at = "use", ![d].session = session,
                                    ![d].bindings = bindings]
    BY <2>1 DEF TypeOK
  <2> QED
    BY <1>1, <1>2, <1>3, <1>6, <2>1 DEF Begins
<1>7. CASE Loaded(d)
  <2>1. CASE calls' = [calls EXCEPT ![d].at = "validate", ![d].session = store]
    BY <2>1 DEF TypeOK
  <2> QED
    BY <1>1, <1>2, <1>7, <2>1 DEF Loaded
<1>8. CASE Succeeds(d)
  <2>1. CASE calls' = [calls EXCEPT ![d].at = "token", ![d].session = logins + 1]
    BY <2>1 DEF TypeOK
  <2> QED
    BY <1>1, <1>2, <1>8, <2>1 DEF Succeeds, Validated, LoggedIn, SessionMade, Discovered
<1>9. CASE Saved(d) \/ Fails(d) \/ Lent(d) \/ LendFails(d)
  BY <1>2, <1>3, <1>9 DEF Saved, Fails, Lent, LendFails
<1>10. CASE Disconnected(d) \/ Refused(d) \/ LendRefused(d)
  BY <1>1, <1>2, <1>10 DEF Disconnected, Refused, LendRefused
<1>11. CASE Returned(d)
  BY <1>11, UseStays DEF Returned
<1> QED
  BY <1>5, <1>6, <1>7, <1>8, <1>9, <1>10, <1>11 DEF Step

LEMMA UseEnds ==
    ASSUME TypeOK, Next, NEW c \in Calls, calls[c].at = "use", calls'[c].at = "returned"
    PROVE Lent(c) \/ LendFails(c) \/ LendRefused(c)
<1>1. calls' # calls
  OBVIOUS
<1>2. PICK d \in Calls :
        \/ Connect(d) \/ Discover(d) \/ Use(d) \/ Step(d) \/ Succeeds(d) \/ Refused(d)
        \/ LendRefused(d)
  BY <1>1 DEF Next, Aging, LocalCloses, Shutdown, HomeCloses, Closes
<1>3. d = c
  BY <1>2, OthersGo
<1> QED
  BY <1>2, <1>3
     DEF Connect, Discover, Use, Issue, Step, Begins, Loaded, Saved, Fails, Disconnected, Returned,
         Succeeds, Validated, LoggedIn, SessionMade, NextRequest, Discovered, Refused,
         Requests

-----------------------------------------------------------------------------

(* The session in use is the one that the store holds, and after a shutdown *)
(* no session, binding, local session or operation is left (home.ts         *)
(* #connect, shutdown; eufy-client.ts #finishShutdown).                     *)
THEOREM HomeHolds == Spec => []HomeOK
<1>1. HomeInv => HomeOK
  BY DEF HomeInv, HomeOK
<1> QED
  BY Invariant, <1>1, PTL

(* A lease hands nothing out once its session or its bindings are not the   *)
(* current ones (home.ts withConnection, readCloudState).                   *)
THEOREM LeasesAreCurrent == Spec => LeaseIsCurrent
<1> DEFINE Lend(c) ==
        calls[c].at = "use" /\ calls'[c].at = "returned" /\ calls'[c].outcome = "ok" =>
            session = calls[c].session /\ bindings = calls[c].bindings
<1>1. ASSUME HomeInv, Next, NEW c \in Calls,
             calls[c].at = "use", calls'[c].at = "returned", calls'[c].outcome = "ok"
      PROVE session = calls[c].session /\ bindings = calls[c].bindings
  <2>1. Lent(c) \/ LendFails(c) \/ LendRefused(c)
    BY <1>1, UseEnds DEF HomeInv
  <2>2. From(calls) /\ From(Revoked)
    BY <1>1, FromCalls DEF HomeInv
  <2>3. ~LendFails(c) /\ ~LendRefused(c)
    BY <1>1, <2>2, EndsCalls DEF LendFails, LendRefused
  <2>4. ~calls[c].revoked
    BY <2>1, <2>3 DEF Lent, Lapsed
  <2> QED
    BY <1>1, <2>4 DEF HomeInv, CallOK, Current
<1>2. HomeInv /\ Next => \A c \in Calls : Lend(c)
  BY <1>1
<1>3. HomeInv /\ UNCHANGED vars => \A c \in Calls : Lend(c)
  BY DEF vars
<1>4. HomeInv /\ [Next]_vars => [\A c \in Calls : Lend(c)]_vars
  BY <1>2, <1>3
<1> QED
  BY <1>4, Invariant, PTL DEF LeaseIsCurrent, Spec
==============================================================================
