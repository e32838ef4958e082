------------------------------- MODULE Roster -------------------------------
(***************************************************************************)
(* zebra-crosslink/src/lib.rs: the roster of finalizers, with the rewards  *)
(* and staking commands that change it.                                    *)
(*                                                                         *)
(* A roster is a Vec of finalizers with their voting power.  Every replica *)
(* (a node) starts from the peers its configuration lists, and then        *)
(* applies the same newly final blocks: for each block the reward is       *)
(* divided first, and then the staking commands in its transactions are    *)
(* applied.  Voting power is a u64, and the release build wraps.           *)
(***************************************************************************)
EXTENDS Integers, Sequences, FiniteSets, FiniteSetsExt

CONSTANTS
    Replica,
    Key, KeyRank,       \* public keys and their byte order
    NoKey,              \* the unused source or target of a command
    Peers,              \* the configured peers of a replica, in order
    POS_TOTAL_REWARD,
    U64,                \* one more than the greatest voting power
    CommandValues,      \* values that staking commands carry
    MaxBlocks, MaxCommands

ASSUME RosterAssumption ==
    /\ KeyRank \in [Key -> Nat] /\ NoKey \notin Key
    /\ \A k, l \in Key : KeyRank[k] = KeyRank[l] => k = l
    /\ Peers \in [Replica -> Seq(Key)]
    /\ \A p \in Replica : \A i, j \in DOMAIN Peers[p] :
            Peers[p][i] = Peers[p][j] => i = j
    /\ U64 \in Nat \ {0, 1}
    /\ POS_TOTAL_REWARD \in 0 .. U64 - 1
    /\ CommandValues \subseteq 0 .. U64 - 1
    /\ MaxBlocks \in Nat /\ MaxCommands \in Nat

VARIABLES
    roster,         \* validators_at_current_height of each replica
    issued,         \* the stake each replica's roster should hold (history)
    failed,         \* replicas whose reward division panicked
    blocks, commands

vars == <<roster, issued, failed, blocks, commands>>

Finalizer == [key : Key, power : 0 .. U64 - 1]

Kinds == {"Add", "Sub", "Clear", "Move", "MoveClear"}

StakingAction ==
    [kind : Kinds, val : CommandValues, target : Key, source : Key \cup {NoKey}]

TypeOK ==
    /\ roster \in [Replica -> Seq(Finalizer)]
    /\ issued \in [Replica -> Int]
    /\ failed \subseteq Replica
    /\ blocks \in Nat /\ commands \in Nat

-----------------------------------------------------------------------------
TotalStake(r) == MapThenSumSet(LAMBDA i : r[i].power, DOMAIN r)

TotalVotingPower(r) == TotalStake(r) % U64

HasStake(r) == \E i \in DOMAIN r : r[i].power > 0

\* The first of the finalizers with the most voting power.
MaxPowerFinalizer(r) ==
    CHOOSE i \in DOMAIN r : \A j \in DOMAIN r :
        r[j].power < r[i].power \/ (r[j].power = r[i].power /\ i <= j)

\* Mutant: a share is rounded up.
ShareRoundedUp(r, i) ==
    ((r[i].power * POS_TOTAL_REWARD + TotalVotingPower(r) - 1)
        \div TotalVotingPower(r)) % U64

\* The product is a u128, the quotient is cut to a u64.
Share(r, i) == ((r[i].power * POS_TOTAL_REWARD) \div TotalVotingPower(r)) % U64

\* The shares of all finalizers but the greatest.
SumReward(r) ==
    MapThenSumSet(LAMBDA i : Share(r, i), DOMAIN r \ {MaxPowerFinalizer(r)}) % U64

\* Mutant: the greatest finalizer gets its own rounded share only.
RemRewardOwnShare(r) == Share(r, MaxPowerFinalizer(r))

\* What is left for the greatest finalizer.
RemReward(r) == (POS_TOTAL_REWARD - SumReward(r)) % U64

\* The division by the total, or assert!(reward <= rem_reward), fails.
RewardPanics(r) ==
    /\ HasStake(r)
    /\ \/ TotalVotingPower(r) = 0
       \/ Share(r, MaxPowerFinalizer(r)) > RemReward(r)

\* Divide the reward of one final block.
DivideReward(r) ==
    IF ~HasStake(r) THEN r
    ELSE [i \in DOMAIN r |->
            [r[i] EXCEPT !.power =
                (@ + (IF i = MaxPowerFinalizer(r) THEN RemReward(r) ELSE Share(r, i)))
                    % U64]]

-----------------------------------------------------------------------------
Subtracts(a) == a.kind # "Add"
Clears(a) == a.kind \in {"Clear", "MoveClear"}
Adds(a) == a.kind \in {"Add", "Move", "MoveClear"}

\* The finalizer a command subtracts from.
SubKey(a) == IF a.kind \in {"Sub", "Clear"} THEN a.target ELSE a.source

Members(r) == {r[i].key : i \in DOMAIN r}

\* roster.iter_mut().find(): the first finalizer with the key.
IndexOf(r, k) ==
    CHOOSE i \in DOMAIN r : r[i].key = k /\ \A j \in DOMAIN r : r[j].key = k => i <= j

\* A command that returns 0: nothing to subtract from, or not enough.
IsInvalid(r, a) ==
    /\ Subtracts(a)
    /\ \/ SubKey(a) \notin Members(r)
       \/ r[IndexOf(r, SubKey(a))].power < a.val

\* Clear leaves a.val, the other commands take it.
Amount(r, a) ==
    IF Clears(a) THEN r[IndexOf(r, SubKey(a))].power - a.val ELSE a.val

SubFrom(r, k, amount) == [r EXCEPT ![IndexOf(r, k)].power = @ - amount]

AddTo(r, k, amount) ==
    IF k \in Members(r)
    THEN [r EXCEPT ![IndexOf(r, k)].power = (@ + amount) % U64]
    ELSE Append(r, [key |-> k, power |-> amount])

\* update_roster_for_cmd: subtract first, then add the same amount.
UpdateRosterForCmd(r, a) ==
    IF IsInvalid(r, a) THEN r
    ELSE LET sub == IF Subtracts(a) THEN SubFrom(r, SubKey(a), Amount(r, a)) ELSE r
         IN  IF Adds(a) THEN AddTo(sub, a.target, Amount(r, a)) ELSE sub

-----------------------------------------------------------------------------
\* sort_by_key(Reverse((stake, pub_key))).
Ahead(r, i, j) ==
    \/ r[i].power > r[j].power
    \/ r[i].power = r[j].power /\ KeyRank[r[i].key] > KeyRank[r[j].key]

\* tenderlink_roster_from_internal: sorted, with the cumulative stake.
TenderlinkRoster(r) ==
    [n \in 1 .. Len(r) |->
        LET i == CHOOSE i \in DOMAIN r : Cardinality({j \in DOMAIN r : Ahead(r, j, i)}) = n - 1
        IN  [key |-> r[i].key, stake |-> r[i].power,
             cumulative_stake |->
                MapThenSumSet(LAMBDA j : r[j].power, {j \in DOMAIN r : j = i \/ Ahead(r, j, i)})
                    % U64]]

-----------------------------------------------------------------------------
\* spawn_new_tfl_service: one vote for each configured peer.
Init ==
    /\ roster = [p \in Replica |->
                    [i \in 1 .. Len(Peers[p]) |-> [key |-> Peers[p][i], power |-> 1]]]
    /\ issued = [p \in Replica |-> Len(Peers[p])]
    /\ failed = {} /\ blocks = 0 /\ commands = 0

Running == Replica \ failed

\* The next newly final block is reached on every replica.
Reward ==
    /\ blocks < MaxBlocks
    /\ blocks' = blocks + 1
    /\ failed' = failed \cup {p \in Replica : RewardPanics(roster[p])}
    /\ roster' = [p \in Replica |->
                    IF p \in failed' THEN roster[p] ELSE DivideReward(roster[p])]
    /\ issued' = [p \in Replica |->
                    IF p \in failed' \/ ~HasStake(roster[p]) THEN issued[p]
                    ELSE issued[p] + POS_TOTAL_REWARD]
    /\ UNCHANGED commands

\* What a command adds to the stake of a roster.
Change(r, a) ==
    IF IsInvalid(r, a) THEN 0
    ELSE CASE a.kind = "Add"   -> a.val
           [] a.kind = "Sub"   -> 0 - a.val
           [] a.kind = "Clear" -> 0 - Amount(r, a)
           [] OTHER            -> 0

\* A staking command in a transaction of that block.
Command(a) ==
    /\ blocks > 0 /\ commands < MaxCommands
    /\ commands' = commands + 1
    /\ roster' = [p \in Replica |->
                    IF p \in Running THEN UpdateRosterForCmd(roster[p], a) ELSE roster[p]]
    /\ issued' = [p \in Replica |->
                    IF p \in Running THEN issued[p] + Change(roster[p], a) ELSE issued[p]]
    /\ UNCHANGED <<failed, blocks>>

Next == Reward \/ \E a \in StakingAction : Command(a)

Spec == Init /\ [][Next]_vars

-----------------------------------------------------------------------------
KeysAreUnique(r) == \A i, j \in DOMAIN r : r[i].key = r[j].key => i = j

\* Stake appears and disappears only as rewards and commands say: a reward adds
\* exactly POS_TOTAL_REWARD whatever the rounding, a move adds nothing, and a
\* refused command changes nothing (update_roster_for_cmd and the reward loop).  No
\* finalizer is in a roster twice, so its stake is what find() finds.
StakeIsAccounted ==
    /\ TypeOK
    /\ \A p \in Replica : /\ TotalStake(roster[p]) = issued[p]
                           /\ KeysAreUnique(roster[p])

\* The greatest finalizer never gets less than its share: the assertion
\* "should be at least the expected share remaining" holds.
RewardNeverPanics == failed = {}

\* "this should always *exactly* apportion the entire reward" (lib.rs:645).
RewardIsExact ==
    [][\A p \in Replica : blocks' > blocks /\ HasStake(roster[p]) =>
            TotalStake(roster'[p]) = TotalStake(roster[p]) + POS_TOTAL_REWARD]_vars

\* Replicas that applied the same blocks have the same sorted roster: "everyone
\* has exactly the same view regardless of whether they found out about members
\* in different orders" (lib.rs:763).
ViewsAgree ==
    \A p, q \in Replica : TenderlinkRoster(roster[p]) = TenderlinkRoster(roster[q])
=============================================================================
