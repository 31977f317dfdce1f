SPECIFICATION FairSpec
CONSTANTS
  batch = batch
  chain = chain
  spawn = spawn
  a1 = a1
  a2 = a2
  a3 = a3
  steps = steps
  Parcels = {a1, a2, steps, a3}
  Calls = {batch, chain, spawn}
  Of <- MCOf
  Background = {a3}
  Chains = {steps}
CHECK_DEADLOCK FALSE
INVARIANTS
  ResultsAccounted
  LostOnlyWhenExcused
PROPERTIES
  PromiseKept
