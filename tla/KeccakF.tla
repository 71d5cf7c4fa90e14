------------------------------- MODULE KeccakF -------------------------------
(***************************************************************************)
(* permutation of keccak256.cpp, a round at a time, with the tables of the *)
(* source.  A lane of 64 bits is the set of the places that are one.       *)
(***************************************************************************)
EXTENDS Integers, Sequences, SequencesExt

LaneBits == 64
Coordinate == 0 .. 4

\* The places that are one in each constant of the source.
kRoundConstants ==
    <<{0}, {1, 7, 15}, {1, 3, 7, 15, 63}, {15, 31, 63},
      {0, 1, 3, 7, 15}, {0, 31}, {0, 7, 15, 31, 63}, {0, 3, 15, 63},
      {1, 3, 7}, {3, 7}, {0, 3, 15, 31}, {1, 3, 31},
      {0, 1, 3, 7, 15, 31}, {0, 1, 3, 7, 63}, {0, 3, 7, 15, 63}, {0, 1, 15, 63},
      {1, 15, 63}, {7, 63}, {1, 3, 15}, {1, 3, 31, 63},
      {0, 7, 15, 31, 63}, {7, 15, 63}, {0, 31}, {3, 15, 31, 63}>>

kRotation ==
    <<<<0, 36, 3, 41, 18>>, <<1, 44, 10, 45, 2>>, <<62, 6, 43, 15, 61>>,
      <<28, 55, 25, 21, 56>>, <<27, 20, 39, 8, 14>>>>

LaneXor(left, right) == (left \ right) \cup (right \ left)

rotate_left(lane, shift) == {(place + shift) % LaneBits : place \in lane}

\* The eight bytes of a lane, the lowest first.
load_le64(bytes) ==
    {place \in 0 .. (LaneBits - 1) : (bytes[(place \div 8) + 1] \div (2 ^ (place % 8))) % 2 = 1}

\* The lanes of the state, state[x + 5 * y], in rows.
Five(Lane(_)) == <<Lane(0), Lane(1), Lane(2), Lane(3), Lane(4)>>
Grid(Lane(_, _)) == Five(LAMBDA y : Five(LAMBDA x : Lane(x, y)))
At(state, x, y) == state[(y % 5) + 1][(x % 5) + 1]

\* The lane that the loop puts at moved[u + 5 * v].
Moved(state, u, v) ==
    LET from == CHOOSE p \in Coordinate \X Coordinate : u = p[2] /\ v = (2 * p[1] + 3 * p[2]) % 5
    IN  rotate_left(At(state, from[1], from[2]), kRotation[from[1] + 1][from[2] + 1])

\* One turn of the loop over the rounds.
Round(state, constant) ==
    LET column == Five(LAMBDA x : FoldLeft(LaneXor, {}, [i \in 1 .. 5 |-> At(state, x, i - 1)]))
        delta == Five(LAMBDA x : LaneXor(column[((x + 4) % 5) + 1],
                                     rotate_left(column[((x + 1) % 5) + 1], 1)))
        mixed == Grid(LAMBDA x, y : LaneXor(At(state, x, y), delta[x + 1]))
        moved == Grid(LAMBDA x, y : Moved(mixed, x, y))
        turned == Grid(LAMBDA x, y :
                      LaneXor(At(moved, x, y), At(moved, x + 2, y) \ At(moved, x + 1, y)))
    IN  [turned EXCEPT ![1][1] = LaneXor(@, constant)]

permutation(state) == FoldLeft(Round, state, kRoundConstants)

-----------------------------------------------------------------------------
(* Keccak-f[1600] as FIPS 202 defines it, on bits with three coordinates. *)

Bits == Coordinate \X Coordinate \X (0 .. (LaneBits - 1))
BitsOfState(state) == {bit \in Bits : bit[3] \in At(state, bit[1], bit[2])}
Odd(bits, x, z) ==
    LET one(y) == IF <<x, y, z>> \in bits THEN 1 ELSE 0
    IN  (one(0) + one(1) + one(2) + one(3) + one(4)) % 2 = 1

Theta(bits) ==
    LET odd == {p \in Coordinate \X (0 .. (LaneBits - 1)) : Odd(bits, p[1], p[2])}
        turned(bit) == (<<(bit[1] + 4) % 5, bit[3]>> \in odd)
                       # (<<(bit[1] + 1) % 5, (bit[3] + LaneBits - 1) % LaneBits>> \in odd)
    IN  {bit \in Bits : (bit \in bits) # turned(bit)}

\* The walk (x, y) -> (y, 2x + 3y) from (1, 0) passes every lane but the first; the t-th one is
\* turned by (t + 1)(t + 2) / 2.
WalkTo[t \in 0 .. 23] ==
    IF t = 0 THEN <<1, 0>>
    ELSE LET before == WalkTo[t - 1] IN <<before[2], (2 * before[1] + 3 * before[2]) % 5>>
Offset ==
    [lane \in Coordinate \X Coordinate |->
        IF lane = <<0, 0>> THEN 0
        ELSE LET t == CHOOSE t \in 0 .. 23 : WalkTo[t] = lane
             IN  (((t + 1) * (t + 2)) \div 2) % LaneBits]

RhoPi(bits) ==
    {bit \in Bits :
        LET from == <<(bit[1] + 3 * bit[2]) % 5, bit[1]>>
        IN  <<from[1], from[2], (bit[3] + LaneBits - Offset[from]) % LaneBits>> \in bits}

Chi(bits) ==
    {bit \in Bits :
        (bit \in bits) # (/\ <<(bit[1] + 1) % 5, bit[2], bit[3]>> \notin bits
                          /\ <<(bit[1] + 2) % 5, bit[2], bit[3]>> \in bits)}

\* The register x^8 + x^6 + x^5 + x^4 + 1 gives seven bits of a constant to each round.
Register[t \in 0 .. 167] ==
    IF t = 0 THEN {0}
    ELSE LET shifted == {place + 1 : place \in Register[t - 1]}
         IN  IF 8 \in shifted THEN LaneXor(shifted, {8, 0, 4, 5, 6}) ELSE shifted
RoundConstant == [round \in 0 .. 23 |->
    {(2 ^ j) - 1 : j \in {k \in 0 .. 5 : 0 \in Register[(7 * round) + k]}}
    \cup IF 0 \in Register[(7 * round) + 6] THEN {63} ELSE {}]

Iota(bits, round) ==
    {bit \in Bits : (bit \in bits) # (bit[1] = 0 /\ bit[2] = 0 /\ bit[3] \in RoundConstant[round])}

\* A round of the firmware is that round of Keccak-f.
RoundIsKeccakF(state, round) ==
    BitsOfState(Round(state, kRoundConstants[round]))
        = Iota(Chi(RhoPi(Theta(BitsOfState(state)))), round - 1)
=============================================================================
