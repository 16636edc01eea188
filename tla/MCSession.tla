----------------------------- MODULE MCSession -----------------------------
(***************************************************************************)
(* Instances for TLC of a session between two phones and of the registries *)
(* through which one phone's threads reach its sessions.  They share no    *)
(* state, so each behaviour exercises one of them (part).                  *)
(***************************************************************************)
EXTENDS Session, SessionRegistry, TLC

VARIABLE part

(* Two rosters of successive epochs; the first expires at 3.               *)
MCEpochOf == [ro \in Rosters |-> ro]
MCValidFrom == [ro \in Rosters |-> 0]
MCValidUntil == [ro \in Rosters |-> IF ro = 1 THEN 3 ELSE 100]

(* The threads of the registry are interchangeable.                        *)
Interchangeable == Permutations(Threads)

PartInit ==
  /\ part \in {"protocol", "registry"}
  /\ Init /\ RegistryInit
  /\ part = "registry" =>   \* the protocol's part is of no interest then
       \A r \in Roles : clock[r] = 0 /\ installed[r] = 1 /\ expects[r]

ProtocolStep == part = "protocol" /\ Next /\ UNCHANGED <<part, registry>>
RegistryStep == part = "registry" /\ RegistryNext /\ UNCHANGED <<part, vars>>

PartSpec == PartInit /\ [][ProtocolStep \/ RegistryStep]_<<part, vars, registry>>
=============================================================================
