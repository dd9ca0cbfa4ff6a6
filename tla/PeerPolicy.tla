------------------------------ MODULE PeerPolicy ------------------------------
(***************************************************************************)
(* PeerBook: the local score of a peer and the policy derived from it.     *)
(* A peer without an entry has score 0.                                    *)
(***************************************************************************)
EXTENDS Integers

CONSTANTS
    BAN_THRESHOLD, THROTTLE_THRESHOLD, SCORE_LIMIT,
    RewardAmount, TimeoutPenalty

ASSUME PolicyAssumption ==
    /\ BAN_THRESHOLD \in Int /\ THROTTLE_THRESHOLD \in Int /\ SCORE_LIMIT \in Nat
    /\ -SCORE_LIMIT <= BAN_THRESHOLD
    /\ BAN_THRESHOLD < THROTTLE_THRESHOLD /\ THROTTLE_THRESHOLD < 0
    /\ RewardAmount \in Nat /\ TimeoutPenalty \in Nat

Score == -SCORE_LIMIT .. SCORE_LIMIT

\* Both saturation bounds; reward needs the upper one only, penalize the lower one.
clamp(x) == IF x > SCORE_LIMIT THEN SCORE_LIMIT ELSE IF x < -SCORE_LIMIT THEN -SCORE_LIMIT ELSE x

reward(score) == clamp(score + RewardAmount)

timeout(score) == clamp(score - TimeoutPenalty)

identity_mismatch(score) == clamp(score + BAN_THRESHOLD)

disposition(score) ==
    IF score <= BAN_THRESHOLD THEN "Banned"
    ELSE IF score <= THROTTLE_THRESHOLD THEN "Throttled"
    ELSE "Accepted"
=============================================================================
