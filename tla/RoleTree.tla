------------------------------ MODULE RoleTree ------------------------------
(***************************************************************************)
(* The keeper's role of the Safe mode of the liquidity manager             *)
(* (packages/sugar/src/alm: roles.ts and safe-builders.ts, with the setup  *)
(* command that calls them).  The setup gathers the contracts of the       *)
(* configured pools, and scopes each function the keeper needs with a tree *)
(* of conditions flattened to an array; the builders' calls go through the *)
(* role afterwards.  assertSafeAlmSupported keeps 0.1 from executing any   *)
(* of it: this is about the builders, which dry runs and tests call.  The  *)
(* Roles modifier is external: how it reads the array.                     *)
(***************************************************************************)
EXTENDS Integers, Sequences, FiniteSets, SequencesExt

CONSTANTS
  Avatar,        \* the Safe
  Stranger,      \* any other address, and any argument of no interest
  Swapper,       \* the swapper and its Permit2
  RolePools,     \* the pools a configuration may list
  NfpmOf, GaugeOf, LegsOf, EmissionsOf,  \* what the catalog says of each
  NoContract,    \* the gauge or the emissions token a pool has not
  MaxEntries     \* entries of a configuration

VARIABLES
  entries,    \* pools of the configuration
  configCalls,\* calls of the setup batch not encoded yet
  flat,       \* the array of the scopeFunction call at hand
  waiting,    \* the queue of flattenScopeConditions
  role,       \* what the batch, once executed, permits
  safePlan    \* the Safe's calls of the phase planned last

roleVars == <<entries, configCalls, flat, waiting, role, safePlan>>

\* ParamCondition
Pass        == [kind |-> "pass"]
ToAvatar    == [kind |-> "equal-to-avatar"]
OneOf(addresses) == [kind |-> "one-of-addresses", of |-> addresses]
Tuple(fields)    == [kind |-> "tuple", fields |-> fields]

\* the array of conditions: a node names the place of its parent
Node(parent, type, operator, comp) ==
  [parent |-> parent, type |-> type, operator |-> operator, comp |-> comp]
Root == Node(1, "Calldata", "Matches", Stranger)

\* a node, and the conditions queued under it
NodeOf(condition, parent) ==
  CASE condition.kind = "pass" -> Node(parent, "Static", "Pass", Stranger)
    [] condition.kind = "equal-to-avatar" -> Node(parent, "Static", "EqualToAvatar", Stranger)
    [] condition.kind = "tuple" -> Node(parent, "Tuple", "Matches", Stranger)
    [] condition.kind = "one-of-addresses" ->
         IF Len(condition.of) = 1 THEN Node(parent, "Static", "EqualTo", condition.of[1])
         ELSE Node(parent, "None", "Or", Stranger)

Under(condition) ==
  CASE condition.kind = "tuple" -> condition.fields
    [] condition.kind = "one-of-addresses" /\ Len(condition.of) > 1 ->
         [i \in DOMAIN condition.of |-> OneOf(<<condition.of[i]>>)]
    [] OTHER -> <<>>

Queued(conditions, parent) ==
  [i \in DOMAIN conditions |-> [condition |-> conditions[i], parent |-> parent]]

\* Faulty variant: as a depth-first walk has it.
InFront(queue, more) == more \o queue

\* What is queued under a node waits behind the rest.
Behind(queue, more) == queue \o more

-----------------------------------------------------------------------------
\* keeperPermissionCalls

\* Faulty variant: places counted from zero.
PinnedOneOff(n, place) == Tuple([i \in 1..n |-> IF i = place - 1 THEN ToAvatar ELSE Pass])

Pinned(n, place) == Tuple([i \in 1..n |-> IF i = place THEN ToAvatar ELSE Pass])

MintTree    == Pinned(12, 10)
CollectTree == Pinned(4, 2)

Once(s) == FoldLeft(LAMBDA acc, a : IF Contains(acc, a) THEN acc ELSE Append(acc, a), <<>>, s)

Scoped(target, fn, params) == [op |-> "scopeFunction", target |-> target, fn |-> fn, params |-> params]
AllowFn(target, fn)        == [op |-> "allowFunction", target |-> target, fn |-> fn, params |-> <<>>]
ScopeTarget(target)             == [op |-> "scopeTarget", target |-> target, fn |-> "", params |-> <<>>]

NfpmCalls(nfpm, gauges) ==
  << Scoped(nfpm, "mint", <<MintTree>>), Scoped(nfpm, "collect", <<CollectTree>>),
     AllowFn(nfpm, "decreaseLiquidity"), AllowFn(nfpm, "burn"),
     Scoped(nfpm, "approve", <<OneOf(gauges), Pass>>) >>

GaugeCalls(gauge) ==
  << AllowFn(gauge, "deposit"), AllowFn(gauge, "withdraw"), AllowFn(gauge, "getReward") >>

PermissionCalls(nfpm, gauges, tokens) ==
  LET targets == <<nfpm>> \o gauges \o tokens
  IN  FlattenSeq(<< [i \in DOMAIN targets |-> ScopeTarget(targets[i])], NfpmCalls(nfpm, gauges),
                    FlattenSeq([i \in DOMAIN gauges |-> GaugeCalls(gauges[i])]),
                    [i \in DOMAIN tokens |->
                       Scoped(tokens[i], "approve", <<OneOf(<<nfpm>>), Pass>>)] >>)

-----------------------------------------------------------------------------
\* safe-setup

Present(s) == SelectSeq(s, LAMBDA a : a # NoContract)
GaugesOf(pools) == Once(Present([i \in DOMAIN pools |-> GaugeOf[pools[i]]]))
TokensToScope(pools) ==
  Once(FlattenSeq([i \in DOMAIN pools |-> LegsOf[pools[i]] \o Present(<<EmissionsOf[pools[i]]>>)]))

Nobody == [targets |-> {}, functions |-> << >>]

RoleInit ==
  /\ entries = <<>> /\ configCalls = <<>> /\ flat = <<>> /\ waiting = <<>>
  /\ role = Nobody /\ safePlan = <<>>

\* One position manager for all pools, and a gauge to approve positions to:
\* without either the command ends here.
SafeSetup(pools) ==
  /\ entries = <<>>
  /\ Cardinality({NfpmOf[pools[i]] : i \in DOMAIN pools}) = 1
  /\ GaugesOf(pools) # <<>>
  /\ ~Contains(GaugesOf(pools) \o TokensToScope(pools), Swapper)
  /\ entries' = pools
  /\ configCalls' = PermissionCalls(NfpmOf[pools[1]], GaugesOf(pools), TokensToScope(pools))
  /\ UNCHANGED <<flat, waiting, role, safePlan>>

Permits(target, fn, nodes) ==
  role' = [role EXCEPT !.functions = [at \in DOMAIN @ \cup {<<target, fn>>} |->
                                        IF at = <<target, fn>> THEN nodes ELSE @[at]]]

\* scopeTarget and allowFunction need no tree
PlainCall ==
  /\ configCalls # <<>> /\ configCalls[1].op # "scopeFunction"
  /\ LET call == configCalls[1]
     IN  IF call.op = "scopeTarget" THEN role' = [role EXCEPT !.targets = @ \cup {call.target}]
         ELSE Permits(call.target, call.fn, <<>>)
  /\ configCalls' = Tail(configCalls)
  /\ UNCHANGED <<entries, flat, waiting, safePlan>>

BeginScope ==
  /\ configCalls # <<>> /\ configCalls[1].op = "scopeFunction" /\ flat = <<>>
  /\ flat' = <<Root>> /\ waiting' = Queued(configCalls[1].params, 1)
  /\ UNCHANGED <<entries, configCalls, role, safePlan>>

TakeCondition ==
  /\ waiting # <<>>
  /\ LET first == Head(waiting)
     IN  /\ flat' = Append(flat, NodeOf(first.condition, first.parent))
         /\ waiting' = Behind(Tail(waiting), Queued(Under(first.condition), Len(flat) + 1))
  /\ UNCHANGED <<entries, configCalls, role, safePlan>>

EndScope ==
  /\ flat # <<>> /\ waiting = <<>>
  /\ Permits(configCalls[1].target, configCalls[1].fn, flat)
  /\ configCalls' = Tail(configCalls) /\ flat' = <<>>
  /\ UNCHANGED <<entries, waiting, safePlan>>

-----------------------------------------------------------------------------
(***************************************************************************)
(* The plans of a rebalance in Safe mode, and wrapWithRole: no ether.      *)
(***************************************************************************)
Sends(to, fn, args) == [to |-> to, fn |-> fn, args |-> args, value |-> 0]

\* Only the place of the recipient matters in a tuple.
TupleArgs(n, place, a) == [i \in 1..n |-> IF i = place THEN a ELSE Stranger]

SafeWithdrawal(p) ==
  << Sends(NfpmOf[p], "decreaseLiquidity", <<TupleArgs(5, 0, Stranger)>>),
     Sends(NfpmOf[p], "collect", <<TupleArgs(4, 2, Avatar)>>),
     Sends(NfpmOf[p], "burn", <<Stranger>>) >>

\* exact approvals of the legs whose allowance is short, then the mint
SafeDeposit(p, short) ==
  LET approvals == SelectSeq(LegsOf[p], LAMBDA t : t \in short)
  IN  Append([i \in DOMAIN approvals |-> Sends(approvals[i], "approve", <<NfpmOf[p], Stranger>>)],
             Sends(NfpmOf[p], "mint", <<TupleArgs(12, 10, Avatar)>>))

\* stake, unstake and claimEmissions of transactions.ts, concentrated
StakePlan(p)   == << Sends(NfpmOf[p], "approve", <<GaugeOf[p], Stranger>>),
                     Sends(GaugeOf[p], "deposit", <<Stranger>>) >>
UnstakePlan(p) == << Sends(GaugeOf[p], "withdraw", <<Stranger>>) >>
ClaimPlan(p)   == << Sends(GaugeOf[p], "getReward", <<Stranger>>) >>

PlansOf(p) ==
  {SafeWithdrawal(p)} \cup {SafeDeposit(p, short) : short \in SUBSET Range(LegsOf[p])}
    \cup (IF GaugeOf[p] = NoContract THEN {} ELSE {StakePlan(p), UnstakePlan(p), ClaimPlan(p)})

WrapWithRole(plan) ==
  /\ \A i \in DOMAIN plan : plan[i].value = 0
  /\ safePlan' = plan

\* The role is in force once the owners have executed the whole batch.
InForce == entries # <<>> /\ configCalls = <<>>

PlanPhase ==
  /\ InForce
  /\ \E i \in DOMAIN entries : \E plan \in PlansOf(entries[i]) : WrapWithRole(plan)
  /\ UNCHANGED <<entries, configCalls, flat, waiting, role>>

RoleNext ==
  \/ \E pools \in SeqOf(RolePools, MaxEntries) \ {<<>>} : SafeSetup(pools)
  \/ PlainCall
  \/ BeginScope
  \/ TakeCondition
  \/ EndScope
  \/ PlanPhase

RoleSpec == RoleInit /\ [][RoleNext]_roleVars

-----------------------------------------------------------------------------
\* External: the modifier finds the children of a node by their parent, and
\* matches them to the fields in their order, which must be that of the array
\* with no node of another parent between two of them.
ChildrenOf(nodes, at) ==
  SelectSeq([j \in DOMAIN nodes |-> j], LAMBDA j : j > 1 /\ nodes[j].parent = at)

Reads(nodes, args) ==
  LET \* what a node is about: the arguments, and below a Matches one field each
      value[j \in DOMAIN nodes] ==
        IF j = 1 THEN args
        ELSE LET up == nodes[j].parent IN
             IF nodes[up].operator = "Matches"
             THEN value[up][CHOOSE i \in DOMAIN ChildrenOf(nodes, up) : ChildrenOf(nodes, up)[i] = j]
             ELSE value[up]
      holds[at \in DOMAIN nodes] ==
        LET node == nodes[at]
            children == ChildrenOf(nodes, at) IN
        CASE node.operator = "Pass" -> TRUE
          [] node.operator = "EqualToAvatar" -> value[at] = Avatar
          [] node.operator = "EqualTo" -> value[at] = node.comp
          [] node.operator = "Or" -> \E i \in DOMAIN children : holds[children[i]]
          [] node.operator = "Matches" ->
               /\ Len(children) = Len(value[at])
               /\ \A i \in DOMAIN children : holds[children[i]]
  IN holds[1]

Permitted(call) ==
  /\ call.to \in role.targets
  /\ <<call.to, call.fn>> \in DOMAIN role.functions
  /\ LET nodes == role.functions[<<call.to, call.fn>>]
     IN  nodes = <<>> \/ Reads(nodes, call.args)

\* Integrity.sol: an array in the order of its parents
WellOrdered(nodes) ==
  \A i \in 2..Len(nodes) : nodes[i].parent < i /\ nodes[i - 1].parent <= nodes[i].parent

Gauges == {GaugeOf[p] : p \in Range(entries)} \ {NoContract}
Everyone == {Avatar, Stranger, Swapper} \cup Gauges
              \cup UNION {{NfpmOf[p]} \cup Range(LegsOf[p]) : p \in Range(entries)}

RoleTypeOK ==
  /\ entries \in SeqOf(RolePools, MaxEntries)
  /\ role.targets \subseteq Everyone \cup {EmissionsOf[p] : p \in Range(entries)}
  /\ \A at \in DOMAIN role.functions : at[1] \in role.targets

\* A role in force lets every phase of a rebalance through, as built by
\* safe-builders.ts and transactions.ts, in an array the modifier accepts;
\* and whatever else a keeper sends, positions are minted and fees collected
\* to the Safe alone, a position is approved to the gauge of a managed pool
\* alone, and a token to the position manager alone (roles.ts:17-23).
RoleIsExact ==
  InForce =>
    /\ \A i \in DOMAIN safePlan : Permitted(safePlan[i])
    /\ \A at \in DOMAIN role.functions : WellOrdered(role.functions[at])
    /\ \A p \in Range(entries), a \in Everyone :
         /\ Permitted(Sends(NfpmOf[p], "mint", <<TupleArgs(12, 10, a)>>)) => a = Avatar
         /\ Permitted(Sends(NfpmOf[p], "collect", <<TupleArgs(4, 2, a)>>)) => a = Avatar
         /\ Permitted(Sends(NfpmOf[p], "approve", <<a, Stranger>>)) => a \in Gauges
         /\ \A t \in Range(LegsOf[p]) :
              Permitted(Sends(t, "approve", <<a, Stranger>>)) => a = NfpmOf[p]
=============================================================================
