----------------------------- MODULE NpuPromise -----------------------------
(***************************************************************************)
(* What the NPU promises software: it is configured with a network, is fed *)
(* input vectors word by word, and answers every complete vector with the  *)
(* network's outputs for it, in order, each output once.  A new network is *)
(* only loaded when every answer has been taken.                           *)
(***************************************************************************)
EXTENDS Integers, Sequences

CONSTANTS
  Jobs,           \* the networks
  Input,          \* the inputs
  InputCount(_), OutputCount(_),
  Outputs(_, _)   \* the outputs of a network for an input vector

VARIABLES network, asked, got

(* The k-th output owed for the words fed so far. *)
Expected(k) ==
  LET n == InputCount(network)
      m == OutputCount(network)
      v == (k - 1) \div m
  IN  Outputs(network, SubSeq(asked, n * v + 1, n * (v + 1)))[1 + ((k - 1) % m)]

Owed == IF network = 0 THEN 0
        ELSE OutputCount(network) * (Len(asked) \div InputCount(network))

Init == network = 0 /\ asked = << >> /\ got = << >>

Load(j) ==
  /\ Len(got) = Owed /\ (network # 0 => Len(asked) % InputCount(network) = 0)
  /\ network' = j /\ asked' = << >> /\ got' = << >>

Feed == network # 0 /\ \E x \in Input : asked' = Append(asked, x) /\ UNCHANGED << network, got >>

Answer ==
  /\ Len(got) < Owed
  /\ got' = Append(got, Expected(Len(got) + 1))
  /\ UNCHANGED << network, asked >>

Next == (\E j \in Jobs : Load(j)) \/ Feed \/ Answer

Spec == Init /\ [][Next]_<< network, asked, got >>
=============================================================================
