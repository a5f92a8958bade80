----------------------------- MODULE ListLimits -----------------------------
(* The page sizes of a listing: internal/model/change.go.                    *)
EXTENDS Integers

CONSTANTS
    DefaultLimit, \* model.DefaultLimit
    MaxLimit      \* model.MaxLimit

ASSUME LimitAssumption == MaxLimit \in Nat /\ DefaultLimit \in 1..MaxLimit

effectiveLimit(limit) ==
    IF limit <= 0 THEN DefaultLimit ELSE IF limit > MaxLimit THEN MaxLimit ELSE limit
=============================================================================
