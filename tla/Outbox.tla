------------------------------- MODULE Outbox --------------------------------
(***************************************************************************)
(* What the notification queue promises, with nothing of flushes, groups,  *)
(* digests, tables or restarts: a notice that was posted waits until it is *)
(* settled, it is settled once, and it is only ever called sent when the   *)
(* user was told of it or has muted its kind.  Telling may be repeated.    *)
(*                                                                         *)
(* Notifier implements this specification (Notifier!OutboxSpec).           *)
(***************************************************************************)
CONSTANT Ids       \* the notices that can be posted

VARIABLES state,   \* state[i]: "none", "pending", "sent" or "failed"
          muted,   \* the posted notices of a kind the user does not want
          heard    \* the notices the user was told of, once or more often

boxVars == <<state, muted, heard>>

Waiting == {i \in Ids : state[i] = "pending"}

Init == state = [i \in Ids |-> "none"] /\ muted = {} /\ heard = {}

Post(i) ==
  /\ state[i] = "none"
  /\ state' = [state EXCEPT ![i] = "pending"]
  /\ muted' \in {muted, muted \cup {i}}
  /\ UNCHANGED heard

Tell(told) ==
  /\ heard' = heard \cup told
  /\ UNCHANGED <<state, muted>>

Settle(group, verdict) ==
  /\ verdict = "sent" => group \subseteq heard \cup muted
  /\ state' = [i \in Ids |-> IF i \in group THEN verdict ELSE state[i]]
  /\ UNCHANGED <<muted, heard>>

Next ==
  \/ \E i \in Ids : Post(i)
  \/ \E told \in SUBSET Waiting : Tell(told \ muted)
  \/ \E group \in SUBSET Waiting, verdict \in {"sent", "failed"} :
        Settle(group, verdict)

Spec == Init /\ [][Next]_boxVars
=============================================================================
