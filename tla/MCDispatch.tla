------------------------------- MODULE MCDispatch -------------------------------
(* Values for model checking Dispatch: a tag of the database and an unknown  *)
(* one.                                                                      *)
EXTENDS Dispatch, TLC

CONSTANTS k1, k2, seeded, other, gandhi, newcomer

TwoCalls == {k1, k2}
Tags2 == {seeded, other}
Names2 == {gandhi, newcomer}
SeedGandhi == seeded :> gandhi

Request(kind, tag) == [kind |-> kind, tag |-> tag, name |-> newcomer]

(* Two clients cannot do more harm than swiping and registering.  A swipe at *)
(* the kiosk differs from a poll in lastSwipe only, which no property reads. *)
SwipesAndRegistrations ==
  {Request("swipe", seeded), Request("poll", seeded)} \cup {Request("register", t) : t \in Tags}

================================================================================
