-------------------------- MODULE DeviceAuthorization --------------------------
(***************************************************************************)
(* Which device calls a manifest allows (device_authorization.py): the     *)
(* preflight decides on one request against a manifest and the budget used *)
(* so far, and an allowed request consumes budget.                         *)
(***************************************************************************)
EXTENDS Naturals

CONSTANTS
  Device,       \* what callers name as a device
  Alias,        \* the ones that are well-formed aliases
  Operation,    \* the operations of DeviceReadOperation in use
  Environment   \* environment_alias of the session

ASSUME AliasesNameDevices == Alias \subseteq Device

\* AuthorizationManifest: budgets are given for every operation it allows.
Manifest ==
  [environment : STRING, assets : SUBSET Device, operations : SUBSET Operation,
   from : Nat, until : Nat, maxTotal : Nat, max : [Operation -> Nat]]
NoManifest == [environment |-> "no_manifest"]

\* AuthorizationBudgetState
Budget == [total : Nat, calls : [Operation -> Nat]]
EmptyBudget == [total |-> 0, calls |-> [o \in Operation |-> 0]]

\* Mutation: a budget is exhausted one call too late.
OverspentLeft(used, limit) == used <= limit
Left(used, limit) == used < limit

\* The window is half open.
Valid(m, now) == m.from <= now /\ now < m.until

\* preflight_device_call allows the call; of the seven reasons to deny it the code
\* names the first that applies, in this order.
Preflight(m, device, operation, now, budget) ==
  /\ m # NoManifest
  /\ m.environment = Environment
  /\ Valid(m, now)
  /\ device \in m.assets
  /\ operation \in m.operations
  /\ Left(budget.total, m.maxTotal)
  /\ Left(budget.calls[operation], m.max[operation])

\* Mutation: only the total is counted.
ConsumeTotal(budget, operation) == [budget EXCEPT !.total = @ + 1]
\* _consume
Consume(budget, operation) ==
  [total |-> budget.total + 1, calls |-> [budget.calls EXCEPT ![operation] = @ + 1]]
=============================================================================
