------------------------------- MODULE MCClient -------------------------------
(* Values for model checking Client.                                         *)
EXTENDS Client, TLC

CONSTANTS cfg1, cfg2, srv1, srv2, eth, wlan, tag1, tag2

NoneOrTwo == {<<>>, <<cfg1, cfg2>>}
NoneOrOne == {<<>>, <<cfg1>>}
One == {<<cfg1>>}
NoTags == {}
OneTag == {tag1}
TwoTags == {tag1, tag2}

(* One service is seen on two interfaces, the others on one.                 *)
MixedLinks == {<<srv1, eth>>, <<srv2, eth>>, <<srv2, wlan>>}
TwoLinks == {<<srv1, eth>>, <<srv2, eth>>}

(* The histories of different servers do not affect each other.  cfg1 is in  *)
(* front at first and pushed back by one service and by another.             *)
ConfiguredAndFound == {cfg1, srv1}
ConfiguredOnly == {cfg1}
Nobody == {}

================================================================================
