---------------------------- MODULE NotifyPromise ----------------------------
(***************************************************************************)
(* What the notification queue promises to everything that enqueues:       *)
(* a notification, once accepted for a recipient, is owed to them until    *)
(* it has been shown in their chat or Telegram has said that it never      *)
(* will be; it is accepted once, and after it is settled nothing more      *)
(* appears.  While it is owed it may be shown more than once: Telegram's   *)
(* answer can be lost after the message was taken.                         *)
(*                                                                         *)
(* Outbox.tla is shown to implement this module.                           *)
(***************************************************************************)
EXTENDS Naturals

CONSTANT Keys          \* notifications: pairs of a recipient and an event

VARIABLES stage,       \* stage[k]: how far the promise about k has got
          shown        \* shown[k]: times k has appeared in the chat

pvars == <<stage, shown>>

Stages == {"unborn", "owed", "told", "refused"}

PInit ==
  /\ stage = [k \in Keys |-> "unborn"]
  /\ shown = [k \in Keys |-> 0]

\* k is accepted for delivery.
Owe(k) ==
  /\ stage[k] = "unborn"
  /\ stage' = [stage EXCEPT ![k] = "owed"]
  /\ UNCHANGED shown

\* k appears in the recipient's chat.
Show(k) ==
  /\ stage[k] = "owed"
  /\ shown' = [shown EXCEPT ![k] = @ + 1]
  /\ UNCHANGED stage

\* The promise about k has been kept.
Keep(k) ==
  /\ stage[k] = "owed"
  /\ shown[k] > 0
  /\ stage' = [stage EXCEPT ![k] = "told"]
  /\ UNCHANGED shown

\* The promise about k cannot be kept: the recipient is out of reach for good.
Refuse(k) ==
  /\ stage[k] = "owed"
  /\ stage' = [stage EXCEPT ![k] = "refused"]
  /\ UNCHANGED shown

PNext == \E k \in Keys : Owe(k) \/ Show(k) \/ Keep(k) \/ Refuse(k)

PSafe == PInit /\ [][PNext]_pvars

\* What is owed does not stay owed for ever.
PSettled == \A k \in Keys : (stage[k] = "owed") ~> (stage[k] \in {"told", "refused"})

PSpec == PSafe /\ PSettled
=============================================================================
