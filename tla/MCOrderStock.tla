--------------------------- MODULE MCOrderStock ---------------------------
(* Small instances of OrderStock for TLC.                                  *)
EXTENDS OrderStock, TLC

CONSTANTS o1, o2, v1, l1, l2, l3, s1

(* One order with a line on a variant and a free line, another with a line *)
(* on the same variant.                                                    *)
TwoOrders == {o1, o2}
TwoLines == {l1, l2, l3}
TwoOf == l1 :> o1 @@ l2 :> o1 @@ l3 :> o2
TwoVariantOf == l1 :> v1 @@ l2 :> FreeLine @@ l3 :> v1

(* One order with two lines on the same variant.                           *)
OneOrder == {o1}
OneLines == {l1, l2}
OneOf == l1 :> o1 @@ l2 :> o1
OneVariantOf == l1 :> v1 @@ l2 :> v1
=============================================================================
