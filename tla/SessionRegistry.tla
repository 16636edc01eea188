-------------------------- MODULE SessionRegistry ---------------------------
(***************************************************************************)
(* The handle registries of crates/mesh-ffi-c for stores and sessions, and *)
(* the calls that radio callbacks and the application make through them    *)
(* from several threads.  Each registry has its own lock; a session call   *)
(* takes the session's store handle under one lock, the store's verified   *)
(* roster under a second and acts on the session under a third.  What a    *)
(* session does with keys and packets is in Session; here it has only what *)
(* the calls decide.                                                       *)
(***************************************************************************)
EXTENDS Integers, FiniteSets

CONSTANTS
  Scopes,        \* databases the host switches between
  Threads,       \* threads that call
  MaxRuntimes,   \* MAX_RUNTIMES
  MaxCounter,    \* MAX_COUNTER, where handles stop
  MaxPolicies    \* bound on the policies installed in a database

VARIABLES
  databases,     \* number of the policy installed in each database, 0 for none
  stores, next_store,        \* StoreRegistry
  sessions, next_session,    \* SessionRegistry
  calls,         \* the call each thread is in
  born,          \* history: stores and sessions there were
  used           \* history: the last call that did its work on a session

registries == <<stores, next_store, sessions, next_session>>
registry == <<databases, registries, calls, born, used>>

Put(table, key, value) ==
  [k \in DOMAIN table \cup {key} |-> IF k = key THEN value ELSE table[k]]
Drop(table, key) == [k \in DOMAIN table \ {key} |-> table[k]]

NoCall == [op |-> "none", held |-> {}]
Unused == [called |-> 0, acted |-> 0, roster |-> <<>>, held |-> {<<>>}]
SessionCalls == {"finish", "authenticate", "send", "receive"}

RegistryInit ==
  /\ databases = [d \in Scopes |-> 0]
  /\ stores = [h \in {} |-> 0] /\ next_store = 1
  /\ sessions = [h \in {} |-> 0] /\ next_session = 1
  /\ calls = [t \in Threads |-> NoCall]
  /\ born = 0 /\ used = Unused

Roster(scope) == <<scope, databases[scope]>>

(* Handles are never reused.                                               *)
(* Mutant: the first number that is free.                                  *)
HandleReused(table, next) ==
  CHOOSE h \in 1 .. next : h \notin DOMAIN table /\ 1 .. h - 1 \subseteq DOMAIN table

Handle(table, next) == next

(* Both registries refuse at their limits, under the lock they insert in.  *)
HasRoom(table, next) == Cardinality(DOMAIN table) < MaxRuntimes /\ next < MaxCounter

StoreOpen(scope) ==
  /\ HasRoom(stores, next_store)
  /\ stores' = Put(stores, Handle(stores, next_store), [scope |-> scope, born |-> born + 1])
  /\ next_store' = next_store + 1
  /\ born' = born + 1
  /\ UNCHANGED <<databases, sessions, next_session, calls, used>>

StoreRelease(h) ==
  /\ stores' = Drop(stores, h)
  /\ UNCHANGED <<databases, next_store, sessions, next_session, calls, born, used>>

(* install_policy through any open handle of the database.                 *)
InstallPolicy(h) ==
  LET scope == stores[h].scope
  IN  /\ databases[scope] < MaxPolicies
      /\ databases' = [databases EXCEPT ![scope] = @ + 1]
      /\ calls' = [t \in Threads |-> IF calls[t] = NoCall THEN NoCall
                     ELSE [calls[t] EXCEPT !.held = @ \cup {<<scope, databases[scope] + 1>>}]]
      /\ UNCHANGED <<registries, born, used>>

(* verified_roster.                                                        *)
Verified(h) == h \in DOMAIN stores /\ databases[stores[h].scope] > 0

Held == {Roster(d) : d \in Scopes}

(* secure_session_start: the roster first, the registry at the end.        *)
SessionStart(t, h) ==
  /\ calls[t] = NoCall
  /\ Verified(h)
  /\ calls' = [calls EXCEPT ![t] =
       [op |-> "start", phase |-> "insert", store |-> h, born |-> stores[h].born,
        roster |-> Roster(stores[h].scope), held |-> Held]]
  /\ UNCHANGED <<databases, registries, born, used>>

Insert(t) ==
  /\ calls[t].op = "start"
  /\ IF HasRoom(sessions, next_session)
     THEN /\ sessions' = Put(sessions, Handle(sessions, next_session),
               [store |-> calls[t].store, of |-> calls[t].born, born |-> born + 1,
                roster |-> calls[t].roster, state |-> "Handshake", keys |-> TRUE,
                finished |-> FALSE, sent_auth |-> FALSE, peer |-> FALSE])
          /\ next_session' = next_session + 1
          /\ born' = born + 1
     ELSE UNCHANGED <<sessions, next_session, born>>
  /\ calls' = [calls EXCEPT ![t] = NoCall]
  /\ UNCHANGED <<databases, stores, next_store, used>>

Act(s, record) ==
  /\ sessions' = [sessions EXCEPT ![s] = record]
  /\ UNCHANGED <<databases, stores, next_store, next_session, born>>

(* secure_session_write and secure_session_read: one lock, no roster.  The *)
(* handshake goes on to its end, or its keys are dropped.                  *)
Exchange(s) ==
  /\ sessions[s].state = "Handshake" /\ sessions[s].keys
  /\ \/ Act(s, [sessions[s] EXCEPT !.finished = TRUE])
     \/ Act(s, [sessions[s] EXCEPT !.keys = FALSE])
  /\ UNCHANGED <<calls, used>>

SessionRelease(s) ==
  /\ sessions' = Drop(sessions, s)
  /\ UNCHANGED <<databases, stores, next_store, next_session, calls, born, used>>

(* session_store_handle.                                                   *)
Locate(t, op, s) ==
  /\ calls[t] = NoCall
  /\ calls' = [calls EXCEPT ![t] =
       [op |-> op, phase |-> "roster", session |-> s, store |-> sessions[s].store,
        born |-> sessions[s].born, roster |-> <<>>, held |-> Held]]
  /\ UNCHANGED <<databases, registries, born, used>>

ReadRoster(t) ==
  /\ calls[t].op \in SessionCalls /\ calls[t].phase = "roster"
  /\ calls' = [calls EXCEPT ![t] =
       IF Verified(calls[t].store)
       THEN [calls[t] EXCEPT !.phase = "act", !.roster = Roster(stores[calls[t].store].scope)]
       ELSE NoCall]
  /\ UNCHANGED <<databases, registries, born, used>>

Done(t, s) ==
  used' = [called |-> calls[t].born, acted |-> sessions[s].born,
           roster |-> sessions[s].roster, held |-> calls[t].held]

Authenticated(s) == sessions[s].keys /\ sessions[s].sent_auth /\ sessions[s].peer

(* finish takes the handshake out of the record; whatever else it finds    *)
(* there, a ready session included, is gone.                               *)
SessionFinish(t, s) ==
  IF /\ sessions[s].state = "Handshake" /\ sessions[s].keys /\ sessions[s].finished
     /\ sessions[s].roster = calls[t].roster
  THEN Act(s, [sessions[s] EXCEPT !.state = "Ready"]) /\ Done(t, s)
  ELSE Act(s, [sessions[s] EXCEPT !.state = "Closed", !.keys = FALSE, !.peer = FALSE])
       /\ UNCHANGED used

(* Session::check closes a session of another roster, or one out of time.  *)
SameRoster(t, s) == sessions[s].roster = calls[t].roster

Checked(t, s) ==
  /\ sessions[s].state = "Ready" /\ sessions[s].keys
  /\ \/ Act(s, [sessions[s] EXCEPT !.keys = FALSE, !.peer = FALSE]) /\ UNCHANGED used
     \/ /\ SameRoster(t, s)
        /\ \/ /\ calls[t].op = "authenticate" /\ ~sessions[s].sent_auth
              /\ Act(s, [sessions[s] EXCEPT !.sent_auth = TRUE])
           \/ /\ calls[t].op = "receive" /\ ~sessions[s].peer
              /\ Act(s, [sessions[s] EXCEPT !.peer = TRUE])
           \/ /\ calls[t].op \in {"send", "receive"} /\ Authenticated(s)
              /\ Act(s, sessions[s])
        /\ Done(t, s)

(* The last step of a session call.  A call may be refused, for its phase, *)
(* number or bytes, and change nothing; not so finish, nor a call that     *)
(* finds another roster.                                                   *)
Apply(t) ==
  /\ calls[t].op \in SessionCalls /\ calls[t].phase = "act"
  /\ calls' = [calls EXCEPT ![t] = NoCall]
  /\ LET s == calls[t].session
     IN  \/ s \in DOMAIN sessions /\ calls[t].op = "finish" /\ SessionFinish(t, s)
         \/ s \in DOMAIN sessions /\ calls[t].op # "finish" /\ Checked(t, s)
         \/ /\ s \in DOMAIN sessions =>
                  /\ calls[t].op # "finish"
                  /\ sessions[s].state = "Ready" /\ sessions[s].keys => SameRoster(t, s)
            /\ UNCHANGED <<databases, registries, born, used>>

RegistryNext ==
  \/ \E scope \in Scopes : StoreOpen(scope)
  \/ \E h \in DOMAIN stores :
       StoreRelease(h) \/ InstallPolicy(h) \/ \E t \in Threads : SessionStart(t, h)
  \/ \E s \in DOMAIN sessions :
       Exchange(s) \/ SessionRelease(s) \/ \E t \in Threads, op \in SessionCalls : Locate(t, op, s)
  \/ \E t \in Threads : Insert(t) \/ ReadRoster(t) \/ Apply(t)

RegistrySpec == RegistryInit /\ [][RegistryNext]_registry

-----------------------------------------------------------------------------
(* A session call works on the session it was made for, under a roster     *)
(* that some database had installed at a moment of that very call, and the *)
(* session's store handle leads to the store it was started on or nowhere, *)
(* whatever other threads open, release and install between its three      *)
(* locks: "never reused: stale handles cannot alias a later instance".     *)
(* The registries keep within MAX_RUNTIMES although a start is checked     *)
(* against the limit only at its end.                                      *)
CallsKeepTheirSession ==
  /\ used.acted = used.called
  /\ used.roster \in used.held
  /\ \A s \in DOMAIN sessions :
       LET h == sessions[s].store IN h \in DOMAIN stores => stores[h].born = sessions[s].of
  /\ Cardinality(DOMAIN sessions) <= MaxRuntimes
  /\ Cardinality(DOMAIN stores) <= MaxRuntimes
=============================================================================
