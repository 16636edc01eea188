----------------------- MODULE SessionRegistryProofs ------------------------
(***************************************************************************)
(* The registries for any number of databases, threads and places: a call  *)
(* that runs under three locks keeps to its session and store.  The        *)
(* argument rests on handles that only grow: a number below the next one   *)
(* is free for ever once it is free, so whoever holds it finds what it     *)
(* stood for or nothing.                                                   *)
(***************************************************************************)
EXTENDS SessionRegistry, FiniteSetTheorems, TLAPS

RosterIds == (Scopes \X Nat) \cup {<<>>}
Stores == [scope : Scopes, born : Nat]
Sessions ==
  [store : Nat, of : Nat, born : Nat, roster : RosterIds, state : {"Handshake", "Ready", "Closed"},
   keys : BOOLEAN, finished : BOOLEAN, sent_auth : BOOLEAN, peer : BOOLEAN]
StartCalls ==
  [op : {"start"}, phase : {"insert"}, store : Nat, born : Nat,
   roster : RosterIds, held : SUBSET RosterIds]
OpenCalls ==
  [op : SessionCalls, phase : {"roster", "act"}, session : Nat, store : Nat, born : Nat,
   roster : RosterIds, held : SUBSET RosterIds]

RegistryTyped ==
  /\ databases \in [Scopes -> Nat]
  /\ next_store \in Nat /\ next_session \in Nat /\ born \in Nat
  /\ stores \in [DOMAIN stores -> Stores] /\ sessions \in [DOMAIN sessions -> Sessions]
  /\ calls \in [Threads -> StartCalls \cup OpenCalls \cup {NoCall}]

(* Every handle in use was given out before the next one.                  *)
HandlesGrow ==
  /\ \A h \in DOMAIN stores : h \in Nat /\ h < next_store
  /\ \A s \in DOMAIN sessions : s \in Nat /\ s < next_session /\ sessions[s].store < next_store

(* A registry is finite and within its limit.                              *)
WithinLimits ==
  /\ IsFiniteSet(DOMAIN stores) /\ Cardinality(DOMAIN stores) <= MaxRuntimes
  /\ IsFiniteSet(DOMAIN sessions) /\ Cardinality(DOMAIN sessions) <= MaxRuntimes

(* A session's store handle leads to the store it was started on.          *)
SessionsKeepStore ==
  \A s \in DOMAIN sessions :
    sessions[s].store \in DOMAIN stores => stores[sessions[s].store].born = sessions[s].of

(* A start in progress holds the handle of its store and a roster read     *)
(* during the call.                                                        *)
StartsKeepStore ==
  \A t \in Threads : calls[t] \in StartCalls =>
    /\ calls[t].store < next_store
    /\ calls[t].store \in DOMAIN stores => stores[calls[t].store].born = calls[t].born

(* A session call in progress holds the handle of its session; once past   *)
(* its second lock, also a roster read during the call.                    *)
CallsKeepSession ==
  \A t \in Threads : calls[t] \in OpenCalls =>
    /\ calls[t].session < next_session
    /\ calls[t].session \in DOMAIN sessions => sessions[calls[t].session].born = calls[t].born
    /\ Held \subseteq calls[t].held
    /\ calls[t].phase = "act" => calls[t].roster \in calls[t].held

LastUse == used.acted = used.called /\ used.roster \in used.held

RegistryInv ==
  /\ RegistryTyped /\ HandlesGrow /\ WithinLimits
  /\ SessionsKeepStore /\ StartsKeepStore /\ CallsKeepSession /\ LastUse

-----------------------------------------------------------------------------
(* The three kinds of call are told apart by their operation.              *)
LEMMA CallKinds ==
  /\ StartCalls \cap OpenCalls = {} /\ NoCall \notin StartCalls \cup OpenCalls
  /\ \A c \in StartCalls : c.op = "start"
  /\ \A c \in OpenCalls : c.op \in SessionCalls
  /\ NoCall.op = "none" /\ "start" \notin SessionCalls /\ "none" \notin SessionCalls
  BY DEF StartCalls, OpenCalls, NoCall, SessionCalls

(* Adding an entry to a registry with room, and dropping one, keep it      *)
(* finite and within its limit.                                            *)
LEMMA TableStaysBounded ==
  ASSUME MaxRuntimes \in Nat, NEW S, NEW x, IsFiniteSet(S), Cardinality(S) <= MaxRuntimes
  PROVE  /\ IsFiniteSet(S \cup {x}) /\ IsFiniteSet(S \ {x})
         /\ Cardinality(S) < MaxRuntimes => Cardinality(S \cup {x}) <= MaxRuntimes
         /\ Cardinality(S \ {x}) <= MaxRuntimes
<1>1. Cardinality(S) \in Nat
  BY FS_CardinalityType
<1>2. /\ IsFiniteSet(S \cup {x})
      /\ Cardinality(S) < MaxRuntimes => Cardinality(S \cup {x}) <= MaxRuntimes
  <2>1. /\ IsFiniteSet(S \cup {x})
        /\ Cardinality(S \cup {x}) \in {Cardinality(S), Cardinality(S) + 1}
    BY FS_AddElement
  <2> QED BY <1>1, <2>1
<1>3. IsFiniteSet(S \ {x}) /\ Cardinality(S \ {x}) <= MaxRuntimes
  BY <1>1, FS_RemoveElement
<1> QED BY <1>2, <1>3

(* What a call does to a session's record leaves its identity alone.       *)
SameIdentity(x, y) == x.store = y.store /\ x.of = y.of /\ x.born = y.born

(* A call on a session never changes whose session it is.                  *)
LEMMA ActForms ==
  ASSUME NEW x \in Sessions
  PROVE  /\ \A y \in {x, [x EXCEPT !.finished = TRUE], [x EXCEPT !.keys = FALSE],
                      [x EXCEPT !.state = "Ready"]} : y \in Sessions /\ SameIdentity(y, x)
         /\ \A y \in {[x EXCEPT !.state = "Closed", !.keys = FALSE, !.peer = FALSE],
                      [x EXCEPT !.keys = FALSE, !.peer = FALSE],
                      [x EXCEPT !.sent_auth = TRUE], [x EXCEPT !.peer = TRUE]} :
              y \in Sessions /\ SameIdentity(y, x)
<1>1. \A y \in {x, [x EXCEPT !.finished = TRUE], [x EXCEPT !.keys = FALSE],
                [x EXCEPT !.state = "Ready"]} : y \in Sessions /\ SameIdentity(y, x)
  BY DEF Sessions, SameIdentity
<1>2. \A y \in {[x EXCEPT !.state = "Closed", !.keys = FALSE, !.peer = FALSE],
                [x EXCEPT !.keys = FALSE, !.peer = FALSE],
                [x EXCEPT !.sent_auth = TRUE], [x EXCEPT !.peer = TRUE]} :
        y \in Sessions /\ SameIdentity(y, x)
  BY DEF Sessions, SameIdentity
<1> QED BY <1>1, <1>2

(* Empty registries satisfy the invariant.                                 *)
LEMMA InitRegistry == ASSUME MaxRuntimes \in Nat PROVE RegistryInit => RegistryInv
<1> SUFFICES ASSUME RegistryInit PROVE RegistryInv
  OBVIOUS
<1>1. DOMAIN stores = {} /\ DOMAIN sessions = {}
  BY DEF RegistryInit
<1>2. RegistryTyped
  BY <1>1 DEF RegistryInit, RegistryTyped
<1>3. WithinLimits
  BY <1>1, FS_EmptySet DEF WithinLimits
<1>4. StartsKeepStore /\ CallsKeepSession
  BY CallKinds DEF RegistryInit, StartsKeepStore, CallsKeepSession
<1>5. LastUse
  BY DEF RegistryInit, LastUse, Unused
<1> QED BY <1>1, <1>2, <1>3, <1>4, <1>5 DEF RegistryInv, HandlesGrow, SessionsKeepStore

(* A store opened gets a handle nobody holds.                              *)
LEMMA StoreOpenKeeps ==
  ASSUME MaxRuntimes \in Nat, RegistryInv, NEW scope \in Scopes, StoreOpen(scope) PROVE RegistryInv'
<1> DEFINE record == [scope |-> scope, born |-> born + 1]
<1> USE DEF RegistryInv
<1>1. /\ stores' = Put(stores, next_store, record) /\ next_store' = next_store + 1 /\ born' = born + 1
      /\ Cardinality(DOMAIN stores) < MaxRuntimes
      /\ UNCHANGED <<databases, sessions, next_session, calls, used>>
  BY DEF StoreOpen, Handle, HasRoom
<1>2. /\ DOMAIN stores' = DOMAIN stores \cup {next_store}
      /\ \A h \in DOMAIN stores \ {next_store} : stores'[h] = stores[h]
      /\ stores'[next_store] = record
      /\ IsFiniteSet(DOMAIN stores') /\ Cardinality(DOMAIN stores') <= MaxRuntimes
  <2>1. /\ DOMAIN stores' = DOMAIN stores \cup {next_store}
        /\ \A h \in DOMAIN stores \ {next_store} : stores'[h] = stores[h]
        /\ stores'[next_store] = record
    BY <1>1 DEF Put
  <2>2. IsFiniteSet(DOMAIN stores) /\ Cardinality(DOMAIN stores) <= MaxRuntimes
    BY DEF WithinLimits
  <2> QED BY <1>1, <2>1, <2>2, TableStaysBounded
<1>3. next_store \notin DOMAIN stores /\ next_store \in Nat
  BY DEF HandlesGrow, RegistryTyped
<1>4. RegistryTyped'
  <2>1. record \in Stores
    BY DEF Stores, RegistryTyped
  <2>2. stores' = [h \in DOMAIN stores' |-> stores'[h]]
    BY <1>1 DEF Put
  <2>3. stores' \in [DOMAIN stores' -> Stores]
    BY <1>2, <2>1, <2>2 DEF RegistryTyped
  <2> QED BY <1>1, <2>3 DEF RegistryTyped
<1>5. HandlesGrow'
  <2>1. \A s \in DOMAIN sessions : sessions[s].store \in Nat
    BY DEF RegistryTyped, Sessions
  <2> QED BY <1>1, <1>2, <1>3, <2>1 DEF HandlesGrow
<1>6. WithinLimits'
  BY <1>1, <1>2 DEF WithinLimits
<1>7. SessionsKeepStore'
  <2> SUFFICES ASSUME NEW s \in DOMAIN sessions, sessions[s].store \in DOMAIN stores'
               PROVE  stores'[sessions[s].store].born = sessions[s].of
    BY <1>1 DEF SessionsKeepStore
  <2>1. sessions[s].store # next_store
    BY <1>3 DEF HandlesGrow, RegistryTyped, Sessions
  <2> QED BY <1>2, <1>3, <2>1 DEF SessionsKeepStore
<1>8. StartsKeepStore'
  <2> SUFFICES ASSUME NEW t \in Threads, calls[t] \in StartCalls
               PROVE  /\ calls[t].store < next_store + 1
                      /\ calls[t].store \in DOMAIN stores' =>
                           stores'[calls[t].store].born = calls[t].born
    BY <1>1 DEF StartsKeepStore
  <2>1. calls[t].store \in Nat /\ calls[t].store < next_store
    BY DEF StartsKeepStore, StartCalls
  <2> QED BY <1>2, <1>3, <2>1 DEF StartsKeepStore
<1>9. CallsKeepSession'
  BY <1>1 DEF CallsKeepSession, Held, Roster
<1> QED BY <1>1, <1>4, <1>5, <1>6, <1>7, <1>8, <1>9 DEF LastUse

(* A store is released; the sessions opened from it stay.                  *)
LEMMA StoreReleaseKeeps ==
  ASSUME MaxRuntimes \in Nat, RegistryInv, NEW h \in DOMAIN stores, StoreRelease(h) PROVE RegistryInv'
<1> USE DEF RegistryInv
<1>1. /\ stores' = Drop(stores, h)
      /\ UNCHANGED <<databases, next_store, sessions, next_session, calls, born, used>>
  BY DEF StoreRelease
<1>2. /\ DOMAIN stores' = DOMAIN stores \ {h}
      /\ \A k \in DOMAIN stores \ {h} : stores'[k] = stores[k]
      /\ IsFiniteSet(DOMAIN stores') /\ Cardinality(DOMAIN stores') <= MaxRuntimes
  <2>1. /\ DOMAIN stores' = DOMAIN stores \ {h}
        /\ \A k \in DOMAIN stores \ {h} : stores'[k] = stores[k]
    BY <1>1 DEF Drop
  <2>2. IsFiniteSet(DOMAIN stores) /\ Cardinality(DOMAIN stores) <= MaxRuntimes
    BY DEF WithinLimits
  <2> QED BY <2>1, <2>2, TableStaysBounded
<1>3. RegistryTyped'
  <2>1. stores' = [k \in DOMAIN stores' |-> stores'[k]]
    BY <1>1 DEF Drop
  <2>2. stores' \in [DOMAIN stores' -> Stores]
    BY <1>2, <2>1 DEF RegistryTyped
  <2> QED BY <1>1, <2>2 DEF RegistryTyped
<1>4. HandlesGrow' /\ WithinLimits' /\ SessionsKeepStore' /\ StartsKeepStore'
  BY <1>1, <1>2 DEF HandlesGrow, WithinLimits, SessionsKeepStore, StartsKeepStore
<1>5. CallsKeepSession'
  BY <1>1 DEF CallsKeepSession, Held, Roster
<1> QED BY <1>1, <1>3, <1>4, <1>5 DEF LastUse

(* A policy installed meanwhile is one more a call may have read.          *)
LEMMA InstallPolicyKeeps ==
  ASSUME RegistryInv, NEW h \in DOMAIN stores, InstallPolicy(h) PROVE RegistryInv'
<1> DEFINE scope == stores[h].scope
           new == <<scope, databases[scope] + 1>>
<1> USE DEF RegistryInv
<1>1. /\ databases' = [databases EXCEPT ![scope] = @ + 1]
      /\ calls' = [t \in Threads |-> IF calls[t] = NoCall THEN NoCall
                     ELSE [calls[t] EXCEPT !.held = @ \cup {new}]]
      /\ UNCHANGED <<registries, born, used>>
  BY DEF InstallPolicy
<1>2. scope \in Scopes /\ databases[scope] \in Nat
  BY DEF RegistryTyped, Stores
<1>3. databases' \in [Scopes -> Nat] /\ new \in RosterIds
  BY <1>1, <1>2 DEF RegistryTyped, RosterIds
<1> HIDE DEF new
<1>4. ASSUME NEW t \in Threads
      PROVE  \/ calls[t] = NoCall /\ calls'[t] = NoCall
             \/ /\ calls[t] \in StartCalls /\ calls'[t] \in StartCalls
                /\ calls'[t].store = calls[t].store /\ calls'[t].born = calls[t].born
             \/ /\ calls[t] \in OpenCalls /\ calls'[t] \in OpenCalls
                /\ calls'[t].session = calls[t].session /\ calls'[t].born = calls[t].born
                /\ calls'[t].phase = calls[t].phase /\ calls'[t].roster = calls[t].roster
                /\ calls'[t].held = calls[t].held \cup {new}
  <2>1. CASE calls[t] = NoCall
    BY <1>1, <2>1
  <2>2. CASE calls[t] \in StartCalls
    <3>1. calls'[t] = [calls[t] EXCEPT !.held = @ \cup {new}]
      BY <1>1, <2>2, CallKinds
    <3> QED BY <1>3, <2>2, <3>1 DEF StartCalls
  <2>3. CASE calls[t] \in OpenCalls
    <3>1. calls'[t] = [calls[t] EXCEPT !.held = @ \cup {new}]
      BY <1>1, <2>3, CallKinds
    <3> QED BY <1>3, <2>3, <3>1 DEF OpenCalls
  <2> QED BY <2>1, <2>2, <2>3 DEF RegistryTyped
<1>5. RegistryTyped'
  <2>1. calls' \in [Threads -> StartCalls \cup OpenCalls \cup {NoCall}]
    BY <1>1, <1>4
  <2> QED BY <1>1, <1>3, <2>1 DEF RegistryTyped, registries
<1>6. Held' \subseteq Held \cup {new}
  BY <1>1, <1>2, <1>3 DEF Held, Roster, RegistryTyped, new
<1>7. StartsKeepStore'
  BY <1>1, <1>4, CallKinds DEF StartsKeepStore, registries
<1>8. CallsKeepSession'
  BY <1>1, <1>4, <1>6, CallKinds DEF CallsKeepSession, registries
<1>9. HandlesGrow' /\ WithinLimits' /\ SessionsKeepStore' /\ LastUse'
  BY <1>1 DEF HandlesGrow, WithinLimits, SessionsKeepStore, LastUse, registries
<1> QED BY <1>5, <1>7, <1>8, <1>9
(* Steps that change only the call of one thread.                          *)
LEMMA CallStep ==
  ASSUME RegistryInv, NEW t \in Threads, NEW c \in StartCalls \cup OpenCalls \cup {NoCall},
         calls' = [calls EXCEPT ![t] = c], UNCHANGED <<databases, registries, born, used>>,
         c \in StartCalls =>
           /\ c.store < next_store
           /\ c.store \in DOMAIN stores => stores[c.store].born = c.born,
         c \in OpenCalls =>
           /\ c.session < next_session
           /\ c.session \in DOMAIN sessions => sessions[c.session].born = c.born
           /\ Held \subseteq c.held
           /\ c.phase = "act" => c.roster \in c.held
  PROVE  RegistryInv'
<1> USE DEF RegistryInv
<1>1. \A u \in Threads : calls'[u] = IF u = t THEN c ELSE calls[u]
  BY DEF RegistryTyped
<1>2. RegistryTyped'
  BY DEF RegistryTyped, registries
<1>3. StartsKeepStore'
  BY <1>1 DEF StartsKeepStore, registries
<1>4. CallsKeepSession'
  <2>1. Held' = Held
    BY DEF Held, Roster
  <2> QED BY <1>1, <2>1 DEF CallsKeepSession, registries
<1> QED BY <1>2, <1>3, <1>4 DEF HandlesGrow, WithinLimits, SessionsKeepStore, LastUse, registries

(* Steps that change one session, whose identity stays, and end the call   *)
(* of a thread at most.                                                    *)
LEMMA SessionStep ==
  ASSUME RegistryInv, NEW s \in DOMAIN sessions, NEW r \in Sessions,
         sessions' = [sessions EXCEPT ![s] = r],
         SameIdentity(r, sessions[s]),
         UNCHANGED <<databases, stores, next_store, next_session, born>>,
         calls' = calls \/ \E t \in Threads : calls' = [calls EXCEPT ![t] = NoCall],
         LastUse'
  PROVE  RegistryInv'
<1> USE DEF RegistryInv
<1>1. /\ DOMAIN sessions' = DOMAIN sessions
      /\ \A u \in DOMAIN sessions :
           /\ sessions'[u].store = sessions[u].store /\ sessions'[u].of = sessions[u].of
           /\ sessions'[u].born = sessions[u].born
  BY DEF RegistryTyped, SameIdentity
<1>2. \A t \in Threads : calls'[t] = calls[t] \/ calls'[t] = NoCall
  BY DEF RegistryTyped
<1>3. RegistryTyped'
  BY DEF RegistryTyped
<1>4. HandlesGrow' /\ SessionsKeepStore'
  BY <1>1 DEF HandlesGrow, SessionsKeepStore
<1>5. WithinLimits'
  BY <1>1 DEF WithinLimits
<1>6. StartsKeepStore'
  BY <1>2, CallKinds DEF StartsKeepStore
<1>7. CallsKeepSession'
  <2>1. Held' = Held
    BY DEF Held, Roster
  <2> QED BY <1>1, <1>2, <2>1, CallKinds DEF CallsKeepSession
<1> QED BY <1>3, <1>4, <1>5, <1>6, <1>7

(* The first step of a start: the store is read under its lock.            *)
LEMMA StartKeeps ==
  ASSUME RegistryInv, NEW t \in Threads, NEW h \in DOMAIN stores, SessionStart(t, h) PROVE RegistryInv'
<1> DEFINE c == [op |-> "start", phase |-> "insert", store |-> h, born |-> stores[h].born,
                 roster |-> Roster(stores[h].scope), held |-> Held]
<1>1. calls' = [calls EXCEPT ![t] = c] /\ UNCHANGED <<databases, registries, born, used>>
  BY DEF SessionStart
<1>2. /\ h \in Nat /\ h < next_store /\ stores[h].born \in Nat /\ stores[h].scope \in Scopes
      /\ Roster(stores[h].scope) \in RosterIds /\ Held \subseteq RosterIds
  BY DEF RegistryInv, RegistryTyped, HandlesGrow, Stores, Roster, RosterIds, Held
<1>3. c \in StartCalls /\ c.store = h /\ c.born = stores[h].born
  BY <1>2 DEF StartCalls
<1> HIDE DEF c
<1> QED BY <1>1, <1>2, <1>3, CallStep, CallKinds

(* The first step of a call: the session names its store.                  *)
LEMMA LocateKeeps ==
  ASSUME RegistryInv, NEW t \in Threads, NEW op \in SessionCalls, NEW s \in DOMAIN sessions,
         Locate(t, op, s)
  PROVE  RegistryInv'
<1> DEFINE c == [op |-> op, phase |-> "roster", session |-> s, store |-> sessions[s].store,
                 born |-> sessions[s].born, roster |-> <<>>, held |-> Held]
<1>1. calls' = [calls EXCEPT ![t] = c] /\ UNCHANGED <<databases, registries, born, used>>
  BY DEF Locate
<1>2. /\ s \in Nat /\ s < next_session /\ sessions[s].born \in Nat /\ sessions[s].store \in Nat
      /\ <<>> \in RosterIds /\ Held \subseteq RosterIds
  BY DEF RegistryInv, RegistryTyped, HandlesGrow, Sessions, Roster, RosterIds, Held
<1>3. /\ c \in OpenCalls /\ c.session = s /\ c.born = sessions[s].born /\ c.held = Held
      /\ c.phase = "roster"
  BY <1>2 DEF OpenCalls
<1> HIDE DEF c
<1> QED BY <1>1, <1>2, <1>3, CallStep, CallKinds

(* The roster read under the second lock is one of those held during the   *)
(* call.                                                                   *)
LEMMA ReadRosterKeeps ==
  ASSUME RegistryInv, NEW t \in Threads, ReadRoster(t) PROVE RegistryInv'
<1> DEFINE roster == Roster(stores[calls[t].store].scope)
           c == IF Verified(calls[t].store)
                THEN [calls[t] EXCEPT !.phase = "act", !.roster = roster] ELSE NoCall
<1>1. /\ calls' = [calls EXCEPT ![t] = c] /\ UNCHANGED <<databases, registries, born, used>>
      /\ calls[t].op \in SessionCalls
  BY DEF ReadRoster
<1>2. calls[t] \in OpenCalls
  BY <1>1, CallKinds DEF RegistryInv, RegistryTyped
<1>3. CASE Verified(calls[t].store)
  <2>1. stores[calls[t].store].scope \in Scopes
    BY <1>3 DEF Verified, RegistryInv, RegistryTyped, Stores
  <2>2. roster \in Held /\ roster \in RosterIds
    BY <2>1 DEF Held, Roster, RosterIds, RegistryInv, RegistryTyped
  <2> HIDE DEF roster
  <2>3. /\ c \in OpenCalls /\ c.session = calls[t].session /\ c.born = calls[t].born
        /\ c.held = calls[t].held /\ c.roster = roster
    BY <1>2, <1>3, <2>2 DEF OpenCalls
  <2>4. /\ calls[t].session < next_session /\ Held \subseteq calls[t].held
        /\ calls[t].session \in DOMAIN sessions => sessions[calls[t].session].born = calls[t].born
    BY <1>2 DEF RegistryInv, CallsKeepSession
  <2> HIDE DEF c
  <2> QED BY <1>1, <2>2, <2>3, <2>4, CallStep, CallKinds
<1>4. CASE ~Verified(calls[t].store)
  <2>1. c = NoCall
    BY <1>4
  <2> HIDE DEF c
  <2> QED BY <1>1, <2>1, CallStep, CallKinds
<1> QED BY <1>3, <1>4

(* A session inserted gets a handle nobody holds, and the store handle of  *)
(* its start.                                                              *)
LEMMA InsertKeeps ==
  ASSUME MaxRuntimes \in Nat, RegistryInv, NEW t \in Threads, Insert(t) PROVE RegistryInv'
<1> DEFINE r == [store |-> calls[t].store, of |-> calls[t].born, born |-> born + 1,
                 roster |-> calls[t].roster, state |-> "Handshake", keys |-> TRUE,
                 finished |-> FALSE, sent_auth |-> FALSE, peer |-> FALSE]
<1> USE DEF RegistryInv
<1>1. /\ calls' = [calls EXCEPT ![t] = NoCall] /\ UNCHANGED <<databases, stores, next_store, used>>
      /\ calls[t].op = "start"
  BY DEF Insert
<1>2. calls[t] \in StartCalls
  BY <1>1, CallKinds DEF RegistryTyped
<1>3. /\ r \in Sessions /\ r.store = calls[t].store /\ r.of = calls[t].born
      /\ calls[t].store < next_store /\ calls[t].store \in Nat
      /\ calls[t].store \in DOMAIN stores => stores[calls[t].store].born = calls[t].born
  BY <1>2 DEF StartCalls, Sessions, RegistryTyped, StartsKeepStore
<1>4. CASE ~HasRoom(sessions, next_session)
  <2>1. UNCHANGED <<databases, registries, born, used>>
    BY <1>1, <1>4 DEF Insert, registries
  <2> QED BY <1>1, <2>1, CallStep, CallKinds
<1>5. CASE HasRoom(sessions, next_session)
  <2>1. /\ sessions' = Put(sessions, next_session, r) /\ next_session' = next_session + 1
        /\ born' = born + 1 /\ Cardinality(DOMAIN sessions) < MaxRuntimes
    BY <1>5 DEF Insert, Handle, HasRoom
  <2> HIDE DEF r
  <2>2. /\ DOMAIN sessions' = DOMAIN sessions \cup {next_session}
        /\ \A k \in DOMAIN sessions \ {next_session} : sessions'[k] = sessions[k]
        /\ sessions'[next_session] = r
        /\ IsFiniteSet(DOMAIN sessions') /\ Cardinality(DOMAIN sessions') <= MaxRuntimes
    <3>1. /\ DOMAIN sessions' = DOMAIN sessions \cup {next_session}
          /\ \A k \in DOMAIN sessions \ {next_session} : sessions'[k] = sessions[k]
          /\ sessions'[next_session] = r
      BY <2>1 DEF Put
    <3>2. IsFiniteSet(DOMAIN sessions) /\ Cardinality(DOMAIN sessions) <= MaxRuntimes
      BY DEF WithinLimits
    <3> QED BY <2>1, <3>1, <3>2, TableStaysBounded
  <2>3. next_session \notin DOMAIN sessions /\ next_session \in Nat /\ born \in Nat
    BY DEF HandlesGrow, RegistryTyped
  <2>4. \A u \in Threads : calls'[u] = calls[u] \/ calls'[u] = NoCall
    BY <1>1 DEF RegistryTyped
  <2>5. RegistryTyped'
    <3>1. sessions' = [k \in DOMAIN sessions' |-> sessions'[k]]
      BY <2>1 DEF Put
    <3>2. sessions' \in [DOMAIN sessions' -> Sessions]
      BY <1>3, <2>2, <3>1 DEF RegistryTyped
    <3>3. calls' \in [Threads -> StartCalls \cup OpenCalls \cup {NoCall}]
      BY <1>1 DEF RegistryTyped
    <3> QED BY <1>1, <2>1, <3>2, <3>3 DEF RegistryTyped
  <2>6. HandlesGrow'
    BY <1>1, <1>3, <2>1, <2>2, <2>3 DEF HandlesGrow
  <2>7. WithinLimits'
    BY <1>1, <2>2 DEF WithinLimits
  <2>8. SessionsKeepStore'
    BY <1>1, <1>3, <2>2, <2>3 DEF SessionsKeepStore
  <2>9. StartsKeepStore'
    BY <1>1, <2>4, CallKinds DEF StartsKeepStore
  <2>10. CallsKeepSession'
    <3> SUFFICES ASSUME NEW u \in Threads, calls[u] \in OpenCalls, calls'[u] = calls[u]
                 PROVE  /\ calls[u].session < next_session'
                        /\ calls[u].session \in DOMAIN sessions' =>
                             sessions'[calls[u].session].born = calls[u].born
                        /\ Held' \subseteq calls[u].held
                        /\ calls[u].phase = "act" => calls[u].roster \in calls[u].held
      BY <2>4, CallKinds DEF CallsKeepSession
    <3>1. calls[u].session \in Nat /\ calls[u].session < next_session
      BY DEF OpenCalls, CallsKeepSession
    <3>2. Held' = Held
      BY <1>1 DEF Held, Roster
    <3> QED BY <2>1, <2>2, <2>3, <3>1, <3>2 DEF CallsKeepSession
  <2> QED BY <1>1, <2>5, <2>6, <2>7, <2>8, <2>9, <2>10 DEF LastUse
<1> QED BY <1>4, <1>5

(* A handshake goes on to its end, or its keys are dropped.                *)
LEMMA ExchangeKeeps ==
  ASSUME RegistryInv, NEW s \in DOMAIN sessions, Exchange(s) PROVE RegistryInv'
<1>1. sessions[s] \in Sessions
  BY DEF RegistryInv, RegistryTyped
<1>2. UNCHANGED <<databases, stores, next_store, next_session, born, calls, used>>
  BY DEF Exchange, Act
<1>3. LastUse'
  BY <1>2 DEF RegistryInv, LastUse
<1>4. PICK r \in Sessions : sessions' = [sessions EXCEPT ![s] = r] /\ SameIdentity(r, sessions[s])
  BY <1>1, ActForms, Zenon DEF Exchange, Act
<1> QED BY <1>2, <1>3, <1>4, SessionStep

(* A session is released while calls on it may be under way.               *)
LEMMA SessionReleaseKeeps ==
  ASSUME MaxRuntimes \in Nat, RegistryInv, NEW s \in DOMAIN sessions, SessionRelease(s)
  PROVE  RegistryInv'
<1> USE DEF RegistryInv
<1>1. /\ sessions' = Drop(sessions, s)
      /\ UNCHANGED <<databases, stores, next_store, next_session, calls, born, used>>
  BY DEF SessionRelease
<1>2. /\ DOMAIN sessions' = DOMAIN sessions \ {s}
      /\ \A k \in DOMAIN sessions \ {s} : sessions'[k] = sessions[k]
      /\ IsFiniteSet(DOMAIN sessions') /\ Cardinality(DOMAIN sessions') <= MaxRuntimes
  <2>1. /\ DOMAIN sessions' = DOMAIN sessions \ {s}
        /\ \A k \in DOMAIN sessions \ {s} : sessions'[k] = sessions[k]
    BY <1>1 DEF Drop
  <2>2. IsFiniteSet(DOMAIN sessions) /\ Cardinality(DOMAIN sessions) <= MaxRuntimes
    BY DEF WithinLimits
  <2> QED BY <2>1, <2>2, TableStaysBounded
<1>3. RegistryTyped'
  <2>1. sessions' = [k \in DOMAIN sessions' |-> sessions'[k]]
    BY <1>1 DEF Drop
  <2>2. sessions' \in [DOMAIN sessions' -> Sessions]
    BY <1>2, <2>1 DEF RegistryTyped
  <2> QED BY <1>1, <2>2 DEF RegistryTyped
<1>4. HandlesGrow' /\ WithinLimits' /\ SessionsKeepStore' /\ StartsKeepStore'
  BY <1>1, <1>2 DEF HandlesGrow, WithinLimits, SessionsKeepStore, StartsKeepStore
<1>5. CallsKeepSession'
  <2>1. Held' = Held
    BY <1>1 DEF Held, Roster
  <2> QED BY <1>1, <1>2, <2>1 DEF CallsKeepSession
<1> QED BY <1>1, <1>3, <1>4, <1>5 DEF LastUse

(* The third lock: a session that is still there is the one located.       *)
LEMMA ApplyKeeps ==
  ASSUME RegistryInv, NEW t \in Threads, Apply(t) PROVE RegistryInv'
<1> DEFINE s == calls[t].session
<1>1. /\ calls' = [calls EXCEPT ![t] = NoCall] /\ calls[t].op \in SessionCalls /\ calls[t].phase = "act"
  BY DEF Apply
<1>2. calls[t] \in OpenCalls
  BY <1>1, CallKinds DEF RegistryInv, RegistryTyped
<1>3. /\ s \in DOMAIN sessions => sessions[s].born = calls[t].born
      /\ calls[t].roster \in calls[t].held
  BY <1>1, <1>2 DEF RegistryInv, CallsKeepSession
<1>4. ASSUME s \in DOMAIN sessions, SameRoster(t, s), Done(t, s) PROVE LastUse'
  BY <1>3, <1>4 DEF Done, SameRoster, LastUse
<1>5. ASSUME UNCHANGED used PROVE LastUse'
  BY <1>5 DEF RegistryInv, LastUse
<1>6. s \in DOMAIN sessions => sessions[s] \in Sessions
  BY DEF RegistryInv, RegistryTyped
<1>7. CASE s \in DOMAIN sessions /\ calls[t].op = "finish" /\ SessionFinish(t, s)
  <2>1. LastUse'
    BY <1>4, <1>5, <1>7 DEF SessionFinish, SameRoster
  <2>2. UNCHANGED <<databases, stores, next_store, next_session, born>>
    <3>1. \E record : Act(s, record) BY <1>7, Zenon DEF SessionFinish
    <3> QED BY <3>1, Zenon DEF Act
  <2>3. PICK r \in Sessions : sessions' = [sessions EXCEPT ![s] = r] /\ SameIdentity(r, sessions[s])
    BY <1>6, <1>7, ActForms, Zenon DEF SessionFinish, Act
  <2> QED BY <1>1, <1>7, <2>1, <2>2, <2>3, SessionStep
<1>8. CASE s \in DOMAIN sessions /\ calls[t].op # "finish" /\ Checked(t, s)
  <2>1. LastUse'
    BY <1>4, <1>5, <1>8 DEF Checked
  <2>2. UNCHANGED <<databases, stores, next_store, next_session, born>>
    <3>1. \E record : Act(s, record) BY <1>8, Zenon DEF Checked
    <3> QED BY <3>1, Zenon DEF Act
  <2>3. PICK r \in Sessions : sessions' = [sessions EXCEPT ![s] = r] /\ SameIdentity(r, sessions[s])
    BY <1>6, <1>8, ActForms, Zenon DEF Checked, Act
  <2> QED BY <1>1, <1>8, <2>1, <2>2, <2>3, SessionStep
<1>9. CASE UNCHANGED <<databases, registries, born, used>>
  BY <1>1, <1>9, CallStep, CallKinds
<1> QED BY <1>7, <1>8, <1>9 DEF Apply

(* Every step of every thread keeps the invariant.                         *)
LEMMA NextRegistry == ASSUME MaxRuntimes \in Nat PROVE RegistryInv /\ [RegistryNext]_registry => RegistryInv'
<1> SUFFICES ASSUME RegistryInv, [RegistryNext]_registry PROVE RegistryInv'
  OBVIOUS
<1>1. CASE UNCHANGED registry
  <2>1. /\ RegistryTyped' /\ HandlesGrow' /\ WithinLimits' /\ SessionsKeepStore'
        /\ StartsKeepStore' /\ LastUse'
    BY <1>1 DEF registry, registries, RegistryInv, RegistryTyped, HandlesGrow, WithinLimits,
                SessionsKeepStore, StartsKeepStore, LastUse
  <2>2. CallsKeepSession'
    BY <1>1 DEF registry, registries, RegistryInv, CallsKeepSession, Held, Roster
  <2> QED BY <2>1, <2>2 DEF RegistryInv
<1>2. CASE RegistryNext
  BY <1>2, StoreOpenKeeps, StoreReleaseKeeps, InstallPolicyKeeps, StartKeeps, ExchangeKeeps,
     SessionReleaseKeeps, LocateKeeps, InsertKeeps, ReadRosterKeeps, ApplyKeeps DEF RegistryNext
<1> QED BY <1>1, <1>2

-----------------------------------------------------------------------------
(* secure_session_* take three locks one after the other.  Whatever other  *)
(* threads do in between, a call acts on the session it located, under a   *)
(* roster that was installed during the call, and a session's store handle *)
(* never leads to another store; both registries keep within MAX_RUNTIMES. *)
THEOREM RegistryCallsKeepTheirSession ==
  ASSUME MaxRuntimes \in Nat PROVE RegistrySpec => []CallsKeepTheirSession
<1>1. RegistryInit => RegistryInv
  BY InitRegistry
<1>2. RegistryInv /\ [RegistryNext]_registry => RegistryInv'
  BY NextRegistry
<1>3. RegistryInv => CallsKeepTheirSession
  BY DEF RegistryInv, WithinLimits, SessionsKeepStore, LastUse, CallsKeepTheirSession
<1> QED BY <1>1, <1>2, <1>3, PTL DEF RegistrySpec
=============================================================================
