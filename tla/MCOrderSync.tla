----------------------------- MODULE MCOrderSync -----------------------------
(* OrderSync for TLC; the bounds are the constants each .cfg gives.        *)
EXTENDS OrderSyncInd, TLC

\* Parcels of an order are interchangeable, as long as all hold goods.
ParcelSymmetry == Permutations(Parcels)
=============================================================================
