------------------------------ MODULE Lifetime ------------------------------
(***************************************************************************)
(* What the reference counting of refbase.cpp promises about the lifetime *)
(* of one object and its RefCounter (spec sections 2 and 4), with no      *)
(* counters in it: only the handles that are held and the two lives.      *)
(*                                                                         *)
(*   rawH       holders of the pointer `new` returned, not yet wrapped     *)
(*   strongH    sptrs held                                                 *)
(*   weakH      wptrs held                                                 *)
(*   everStrong the object has left the "never had a strong owner" state   *)
(*   ext        the object's lifetime is extended                          *)
(*                                                                         *)
(* A handle is taken only on a live object (a wptr: on a live counter).   *)
(* The object is deleted only when no one holds it: no raw holder and no  *)
(* sptr, and no wptr either when its lifetime is extended or it never had *)
(* a strong owner.  The counter is freed only after the object, and when  *)
(* no handle is left that could reach it.                                  *)
(***************************************************************************)
EXTENDS Naturals

VARIABLES objAlive, ctrAlive, everStrong, ext, rawH, strongH, weakH

lifeVars == <<objAlive, ctrAlive, everStrong, ext, rawH, strongH, weakH>>

Init ==
  /\ objAlive = TRUE /\ ctrAlive = TRUE /\ everStrong = FALSE
  /\ ext \in BOOLEAN
  /\ rawH \in Nat /\ strongH = 0 /\ weakH = 0

(* A raw holder may give up its pointer as it wraps it.                     *)
Unwrap == rawH' \in {rawH, rawH - 1} \cap Nat

FirstStrong ==
  /\ objAlive /\ ~everStrong
  /\ everStrong' = TRUE
  /\ UNCHANGED <<objAlive, ctrAlive, ext, rawH, strongH, weakH>>

TakeStrong ==
  /\ objAlive
  /\ strongH' = strongH + 1 /\ Unwrap
  /\ UNCHANGED <<objAlive, ctrAlive, everStrong, ext, weakH>>

DropStrong ==
  /\ strongH > 0 /\ strongH' = strongH - 1
  /\ UNCHANGED <<objAlive, ctrAlive, everStrong, ext, rawH, weakH>>

TakeWeak ==
  /\ ctrAlive
  /\ weakH' = weakH + 1 /\ Unwrap
  /\ UNCHANGED <<objAlive, ctrAlive, everStrong, ext, strongH>>

DropWeak ==
  /\ weakH > 0 /\ weakH' = weakH - 1
  /\ UNCHANGED <<objAlive, ctrAlive, everStrong, ext, rawH, strongH>>

Unheld == rawH = 0 /\ strongH = 0 /\ ((ext \/ ~everStrong) => weakH = 0)

DeleteObject ==
  /\ objAlive /\ Unheld
  /\ objAlive' = FALSE
  /\ UNCHANGED <<ctrAlive, everStrong, ext, rawH, strongH, weakH>>

FreeCounter ==
  /\ ~objAlive /\ ctrAlive /\ strongH = 0 /\ weakH = 0
  /\ ctrAlive' = FALSE
  /\ UNCHANGED <<objAlive, everStrong, ext, rawH, strongH, weakH>>

Next ==
  \/ FirstStrong \/ TakeStrong \/ DropStrong \/ TakeWeak \/ DropWeak
  \/ DeleteObject \/ FreeCounter

Spec == Init /\ [][Next]_lifeVars

====
