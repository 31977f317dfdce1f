----------------------------- MODULE MCDelivery -----------------------------
\* A parallel call of two agents, a chain and a background dispatch, made in
\* any order; two results over one call, one without a handle, one without
\* a caller.
EXTENDS Delivery, TLC

CONSTANTS batch, chain, spawn, a1, a2, a3, steps

MCOf == batch :> {a1, a2} @@ chain :> {steps} @@ spawn :> {a3}
=============================================================================
