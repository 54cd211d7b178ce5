------------------------------- MODULE MowerHome -------------------------------
(* The mower module of EufyClient (src/src/eufy-client.ts) on its Home and Tuya
   account (src/src/mowers/home.ts): one connect() at a time restores the stored
   session or logs in, a discovery binds the mowers, and every use of a binding
   is a lease that ends with the session's expiry, with the bindings and with the
   module. An answer that refuses a session clears it, whichever request it
   answers. The services, the session store and the local sessions are external:
   any answer may come, and a local session may close at any time.

   Not here: what the requests and answers hold, accounts other than the
   configured one, adapters other than EufyHomeAdapter. *)
EXTENDS Naturals

CONSTANTS
    Calls,              \* the callers
    None,
    MapProvisioning,    \* options.home.mapProvisioning
    MaxCalls,           \* bound: the calls they make together
    MaxLogins           \* bound: the sessions there are, with the stored one

ASSUME MowerHomeAssumption ==
    /\ MapProvisioning \in BOOLEAN
    /\ MaxCalls \in Nat /\ MaxLogins \in Nat \ {0}
    /\ None \notin 0..MaxLogins /\ None \notin 0..MaxCalls /\ None \notin Calls

Sessions == 1..MaxLogins
Numbers == 1..MaxCalls

VARIABLES
    lifecycle,      \* Mowers.#lifecycle, and with it both abort signals
    state,          \* is Mowers.#state 'connected'
    connecting,     \* the call that is Mowers.#authentication, or None
    locals,         \* Mowers.#localSessions, by the number of their call
    session,        \* EufyHomeAdapter.#session
    bindings,       \* #bindings: the number of the discovery they are from
    discovering,    \* #discovering
    age,            \* how each session stands to its expiresAt
    logins,         \* the sessions made so far
    store,          \* the session the store holds
    calls,          \* where each caller stands
    made            \* the calls made so far
mowers == <<lifecycle, state, connecting, locals>>
home == <<session, bindings, discovering>>
vars == <<mowers, home, age, logins, store, calls, made>>

Uses == {"open", "read", "provision"}
Requests == {"validate", "email", "settings", "token", "password", "list", "peer"}
Ages == {"live", "reserve", "expired"}

Idle == [kind |-> "none", at |-> "idle", number |-> 0, session |-> None,
         bindings |-> None, revoked |-> FALSE, outcome |-> "none"]

Init ==
    /\ lifecycle = "open" /\ state = FALSE /\ connecting = None /\ locals = {}
    /\ session = None /\ bindings = None /\ discovering = FALSE
    /\ age = [s \in Sessions |-> "live"]
    /\ store \in {None, 1} /\ logins = IF store = None THEN 0 ELSE 1
    /\ calls = [c \in Calls |-> Idle]
    /\ made = 0

(* #live: map provisioning ends a session's use a reserve before its expiry. *)
Live(s) == age[s] = "live" \/ (~MapProvisioning /\ age[s] = "reserve")
(* EufyHomeAdapter.connected and Mowers.connected *)
Connected == lifecycle = "open" /\ session # None /\ Live(session)
Open == state /\ Connected

(* The module's signal, and for a use the whole lease. The caller's own signal
   may end the call at each place where it is looked at. *)
Stopped == lifecycle # "open"
Lapsed(c) == Stopped \/ calls[c].revoked \/ age[calls[c].session] = "expired"

(* Wrong: the bindings go, their leases stand. *)
RevokedLater == calls

(* #revokeBindings: every lease ends. *)
Revoked == [c \in Calls |-> IF calls[c].at = "use" THEN [calls[c] EXCEPT !.revoked = TRUE]
                                                   ELSE calls[c]]
Goes(cs, c, at) == calls' = [cs EXCEPT ![c].at = at]
(* The operation of c ends. A local session that did not open is disconnected. *)
Ends(cs, c, outcome) ==
    calls' = [cs EXCEPT ![c] =
        [Idle EXCEPT !.kind = cs[c].kind, !.number = cs[c].number,
                     !.outcome = outcome,
                     !.at = IF cs[c].kind = "open" /\ outcome = "failed"
                              THEN "disconnect" ELSE "returned"]]

(* #requireSession fails: no session, or one that is not live any more. Inside
   the reserve the leases stay. *)
Required(c) ==
    IF session = None \/ age[session] = "expired"
      THEN bindings' = None /\ Ends(Revoked, c, "failed")
      ELSE UNCHANGED bindings /\ Ends(calls, c, "failed")

(* The answer to a request refuses its session: #json on 401 and 403, #tuya on an
   invalid or expired session. *)
Clear == session' = None /\ bindings' = None

------------------------------ \* calls

Issue(c, kind) ==
    /\ calls[c].at = "idle" /\ lifecycle = "open" /\ made < MaxCalls
    /\ made' = made + 1
    /\ calls' = [calls EXCEPT ![c] = [Idle EXCEPT !.kind = kind, !.at = "starts",
                                                  !.number = made + 1]]
    /\ UNCHANGED <<lifecycle, state, session, bindings, age, logins, store>>

(* Mowers.connect; a second one is refused as busy. *)
Connect(c) ==
    /\ connecting = None /\ Issue(c, "connect")
    /\ connecting' = c
    /\ UNCHANGED <<locals, discovering>>

(* Mowers.discover; a second one is refused as busy. *)
Discover(c) ==
    /\ Open /\ ~discovering /\ Issue(c, "discover")
    /\ discovering' = TRUE
    /\ UNCHANGED <<connecting, locals>>

(* openLocalSession tracks its session before any I/O; queryCloudState and
   queryWorkParameters; provisionMapSession. *)
Use(c) ==
    /\ Open /\ \E kind \in Uses :
         /\ kind = "provision" => MapProvisioning
         /\ Issue(c, kind)
         /\ locals' = IF kind = "open" THEN locals \cup {made + 1} ELSE locals
    /\ UNCHANGED <<connecting, discovering>>

(* #track: the operation begins in a later microtask. *)
Begins(c) ==
    /\ calls[c].at = "starts"
    /\ \/ Ends(calls, c, "failed") /\ UNCHANGED <<session, bindings>>
       \/ ~Stopped /\
            CASE calls[c].kind = "connect" ->
                   IF Connected
                     THEN Ends(calls, c, "ok") /\ UNCHANGED <<session, bindings>>
                     ELSE Clear /\ Goes(Revoked, c, "load")
            []   calls[c].kind = "discover" ->
                   IF ~Connected THEN Required(c) /\ UNCHANGED session
                   ELSE /\ bindings' = None /\ UNCHANGED session
                        /\ Goes(Revoked, c, "list")
            []   OTHER ->
                   IF ~Connected THEN Required(c) /\ UNCHANGED session
                   ELSE /\ UNCHANGED <<session, bindings>>
                        /\ IF bindings = None THEN Ends(calls, c, "failed")
                           ELSE calls' = [calls EXCEPT ![c].at = "use", ![c].session = session,
                                                       ![c].bindings = bindings]
    /\ UNCHANGED <<mowers, discovering, age, logins, store, made>>

------------------------------ \* connect

(* The store answers: the saved session is tried when it is live. The call fails
   when the answer is unreadable, or when it is stopped by then. *)
Loaded(c) ==
    /\ calls[c].at = "load"
    /\ \/ Ends(calls, c, "failed")
       \/ /\ ~Stopped
          /\ IF store = None \/ ~Live(store) THEN Goes(calls, c, "email")
             ELSE calls' = [calls EXCEPT ![c].at = "validate", ![c].session = store]
    /\ UNCHANGED <<mowers, home, age, logins, store, made>>

(* The next step of a connect or a discovery whose request succeeded. *)
Validated(c) ==
    /\ calls[c].at = "validate"
    /\ IF Live(calls[c].session)
         THEN session' = calls[c].session /\ Ends(calls, c, "ok")
         ELSE UNCHANGED session /\ Goes(calls, c, "email")
    /\ UNCHANGED <<bindings, logins>>
(* A login. The first answer names the region, or the settings do; then the session
   is made, and Tuya asks for a token and a password. *)
NextRequest == [email |-> "settings", token |-> "password", password |-> "save"]
SessionMade(c) ==
    /\ calls[c].at \in {"email", "settings"}
    /\ logins < MaxLogins /\ logins' = logins + 1
    /\ calls' = [calls EXCEPT ![c].at = "token", ![c].session = logins + 1]
LoggedIn(c) ==
    /\ \/ SessionMade(c)
       \/ /\ calls[c].at \in DOMAIN NextRequest
          /\ Goes(calls, c, NextRequest[calls[c].at]) /\ UNCHANGED logins
    /\ UNCHANGED <<session, bindings>>

(* The session is saved, and only then used. The store cannot be interrupted;
   one that fails may have written. *)
Saved(c) ==
    /\ calls[c].at = "save"
    /\ \/ /\ store' = calls[c].session
          /\ \/ UNCHANGED session /\ Ends(calls, c, "failed")
             \/ ~Stopped /\ session' = calls[c].session /\ Ends(calls, c, "ok")
       \/ /\ store' \in {store, calls[c].session} /\ UNCHANGED session
          /\ Ends(calls, c, "failed")
    /\ UNCHANGED <<mowers, bindings, discovering, age, logins, made>>

------------------------------ \* discover

Discovered(c) ==
    /\ calls[c].at \in {"list", "peer"}
    /\ \/ calls[c].at = "list" /\ Goes(calls, c, "peer") /\ UNCHANGED bindings
       \/ bindings' = calls[c].number /\ Ends(calls, c, "ok")
    /\ UNCHANGED <<session, logins>>

------------------------------ \* requests

Succeeds(c) ==
    /\ ~Stopped
    /\ Validated(c) \/ LoggedIn(c) \/ Discovered(c)
    /\ UNCHANGED <<mowers, discovering, age, store, made>>

(* The session of the request is refused. A stored one that Tuya refuses is
   followed by a login. *)
Refused(c) ==
    /\ calls[c].at \in Requests /\ ~Stopped
    /\ Clear
    /\ \/ Ends(Revoked, c, "failed")
       \/ calls[c].at = "validate" /\ Goes(Revoked, c, "email")
    /\ UNCHANGED <<mowers, discovering, age, logins, store, made>>

(* Any other answer, the timeout of the request, or a stopped call. *)
Fails(c) ==
    /\ calls[c].at \in Requests
    /\ Ends(calls, c, "failed")
    /\ UNCHANGED <<mowers, home, age, logins, store, made>>

------------------------------ \* leases

(* withConnection and readCloudState: what the callback or the record gives is
   handed out while the lease stands. A read asks for its session once more. *)
Lent(c) ==
    /\ calls[c].at = "use" /\ ~Lapsed(c)
    /\ IF calls[c].kind = "read" /\ ~Connected THEN Required(c)
       ELSE Ends(calls, c, "ok") /\ UNCHANGED bindings
    /\ UNCHANGED <<mowers, session, discovering, age, logins, store, made>>

(* The callback or the request fails, as it does when the lease ends. *)
LendFails(c) ==
    /\ calls[c].at = "use"
    /\ Ends(calls, c, "failed")
    /\ UNCHANGED <<mowers, home, age, logins, store, made>>

LendRefused(c) ==
    /\ calls[c].at = "use" /\ calls[c].kind # "open" /\ ~Lapsed(c)
    /\ Clear /\ Ends(Revoked, c, "failed")
    /\ UNCHANGED <<mowers, discovering, age, logins, store, made>>

(* A failed openLocalSession waits until its session is closed. *)
Disconnected(c) ==
    /\ calls[c].at = "disconnect" /\ calls[c].number \notin locals
    /\ Goes(calls, c, "returned")
    /\ UNCHANGED <<mowers, home, age, logins, store, made>>

------------------------------ \* answers

(* Wrong: a failed connect stays the authentication of the module. *)
ReturnedBusy(c) ==
    /\ calls[c].at = "returned"
    /\ IF calls[c].kind = "connect"
         THEN /\ connecting' = IF calls[c].outcome = "ok" THEN None ELSE connecting
              /\ state' \in {FALSE, calls[c].outcome = "ok" /\ Connected}
         ELSE UNCHANGED <<state, connecting>>
    /\ discovering' = (discovering /\ calls[c].kind # "discover")
    /\ calls' = [calls EXCEPT ![c] = Idle]
    /\ UNCHANGED <<lifecycle, locals, session, bindings, age, logins, store, made>>

(* The module hands the outcome to the caller, unless it is stopped by then. A
   connect is only good while the adapter is still connected. *)
Returned(c) ==
    /\ calls[c].at = "returned"
    /\ IF calls[c].kind = "connect"
         THEN /\ connecting' = None
              /\ state' \in {FALSE, calls[c].outcome = "ok" /\ Connected}
         ELSE UNCHANGED <<state, connecting>>
    /\ discovering' = (discovering /\ calls[c].kind # "discover")
    /\ calls' = [calls EXCEPT ![c] = Idle]
    /\ UNCHANGED <<lifecycle, locals, session, bindings, age, logins, store, made>>

(* Time goes by for a session. *)
Older == [live |-> "reserve", reserve |-> "expired"]
Aging(s) ==
    /\ s <= logins /\ age[s] # "expired"
    /\ age' = [age EXCEPT ![s] = Older[@]]
    /\ UNCHANGED <<mowers, home, logins, store, calls, made>>

LocalCloses(n) ==
    /\ n \in locals /\ locals' = locals \ {n}
    /\ UNCHANGED <<lifecycle, state, connecting, home, age, logins, store, calls, made>>

------------------------------ \* shutdown

Shutdown ==
    /\ lifecycle = "open" /\ lifecycle' = "closing" /\ state' = FALSE
    /\ UNCHANGED <<connecting, locals, home, age, logins, store, calls, made>>

(* EufyHomeAdapter.shutdown: the session goes when every pending operation of it
   is settled. *)
Pending(c) == calls[c].at \in Requests \cup {"starts", "load", "save", "use"}
(* Wrong: it does not wait for them. *)
HomeClosesAtOnce ==
    /\ lifecycle = "closing" /\ Clear /\ lifecycle' = "cleared"
    /\ UNCHANGED <<state, connecting, locals, discovering, age, logins, store, calls, made>>
HomeCloses ==
    /\ lifecycle = "closing" /\ \A c \in Calls : ~Pending(c)
    /\ Clear /\ lifecycle' = "cleared"
    /\ UNCHANGED <<state, connecting, locals, discovering, age, logins, store, calls, made>>

(* #finishShutdown: the adapter, the authentication and the local sessions. *)
Closes ==
    /\ lifecycle = "cleared" /\ connecting = None /\ locals = {}
    /\ lifecycle' = "closed"
    /\ UNCHANGED <<state, connecting, locals, home, age, logins, store, calls, made>>

------------------------------------------------------------------------------

Step(c) ==
    \/ Begins(c) \/ Loaded(c) \/ Saved(c) \/ Fails(c)
    \/ Lent(c) \/ LendFails(c) \/ Disconnected(c) \/ Returned(c)

Next ==
    \/ \E c \in Calls :
         \/ Connect(c) \/ Discover(c) \/ Use(c) \/ Step(c)
         \/ Succeeds(c) \/ Refused(c) \/ LendRefused(c)
    \/ \E s \in Sessions : Aging(s)
    \/ \E n \in Numbers : LocalCloses(n)
    \/ Shutdown \/ HomeCloses \/ Closes

(* Microtasks run, requests time out, the store answers, a local session that is
   told to close does (LocalSession, SessionReleased). *)
Told(n) == lifecycle # "open" \/ \E c \in Calls : calls[c].at = "disconnect" /\ calls[c].number = n
Spec ==
    /\ Init /\ [][Next]_vars
    /\ \A c \in Calls : WF_vars(Step(c))
    /\ WF_vars(\E n \in locals : Told(n) /\ LocalCloses(n))
    /\ WF_vars(HomeCloses \/ Closes)

------------------------------------------------------------------------------

CallState ==
    [kind : {"none", "connect", "discover"} \cup Uses,
     at : Requests \cup {"idle", "starts", "load", "save", "use", "disconnect", "returned"},
     number : 0..MaxCalls, session : Sessions \cup {None}, bindings : Numbers \cup {None},
     revoked : BOOLEAN,
     outcome : {"none", "ok", "failed"}]

(* Types, and what a step relies on: a request that signs has its session. *)
TypeOK ==
    /\ lifecycle \in {"open", "closing", "cleared", "closed"} /\ state \in BOOLEAN
    /\ connecting \in Calls \cup {None} /\ locals \subseteq Numbers
    /\ session \in Sessions \cup {None} /\ bindings \in Numbers \cup {None}
    /\ discovering \in BOOLEAN /\ age \in [Sessions -> Ages]
    /\ logins \in 0..MaxLogins /\ store \in Sessions \cup {None}
    /\ calls \in [Calls -> CallState] /\ made \in 0..MaxCalls
    /\ \A c \in Calls :
         calls[c].at \in {"validate", "token", "password", "save", "use"}
           => calls[c].session # None

(* The session in use is the one the store holds (home.ts #connect: save, then
   use): a restart continues with it, whatever was refused, renewed or
   interrupted in between. *)
SessionIsSaved == session # None => store = session

(* After shutdown no session, binding, local session or operation is left
   (eufy-client.ts #finishShutdown, home.ts shutdown), and none comes back. *)
ShutdownIsQuiet ==
    lifecycle = "closed" =>
      /\ session = None /\ bindings = None /\ locals = {} /\ connecting = None
      /\ \A c \in Calls : ~Pending(c)

(* The session, the bindings and the store between any two steps. *)
HomeOK == TypeOK /\ SessionIsSaved /\ ShutdownIsQuiet

(* A lease hands nothing out once the session or the bindings it was taken with
   are no longer the current ones, whoever cleared, renewed or discovered them
   (home.ts withConnection, readCloudState). *)
LeaseIsCurrent ==
    [][\A c \in Calls :
         calls[c].at = "use" /\ calls'[c].at = "returned" /\ calls'[c].outcome = "ok" =>
           session = calls[c].session /\ bindings = calls[c].bindings]_vars

(* Every call returns and a shutdown ends, without any answer from the cloud. *)
CallsEnd ==
    /\ \A c \in Calls : calls[c].at # "idle" ~> calls[c].at = "idle"
    /\ lifecycle = "closing" ~> lifecycle = "closed"
==============================================================================
