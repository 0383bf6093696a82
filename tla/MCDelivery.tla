----------------------------- MODULE MCDelivery -----------------------------
(* Instances of Delivery for TLC.                                          *)
EXTENDS Delivery, TLC

CONSTANTS s1, s2

(* Both wait: one says so, the other by the legacy variable.               *)
BothWait == s1 :> [mode |-> "standby", legacy |-> "off"]
            @@ s2 :> [mode |-> "", legacy |-> "on"]

(* Up to four lines, some empty, some of characters of three bytes.         *)
Widths   == {<<>>, <<1>>, <<3, 1>>, <<1, 3, 3>>}
Rooms    == UNION {[1..k -> Widths] : k \in 0..4}
LineSize == [name |-> 2, dropped |-> 2, cut |-> 1, note |-> 2, hint |-> 4]
=============================================================================
