---------------------------- MODULE NaturalArith ----------------------------
(***************************************************************************)
(* The natural numbers of encodings/natural.c, as arrays of digits.  The   *)
(* loops of N_modexp and N_mod are actions; the rest are operators.        *)
(*                                                                         *)
(* A digit has S bits, 56 in the code, in a word that holds the sums and   *)
(* products of the code without overflow; N_SIZE is 19 in the code.        *)
(***************************************************************************)
EXTENDS Integers, FiniteSetsExt

CONSTANTS
    S,       \* bits of a digit, an even number
    N_SIZE,  \* digits of a number
    MaxExp   \* bound: exponents

R == 2^S
Number == 0 .. R^N_SIZE - 1

VARIABLES
    arg,  \* the arguments b, e and m of N_modexp, or a and m of N_mod
    pc,   \* "exp": at the loop of N_modexp; "mod": at the loop of N_mod; "done"
    i,    \* the bit of the exponent
    a, t, \* the power and the result of N_modexp, as digits
    to,   \* the variable N_mod assigns: "a", "t", or "c" if called by itself
    n, d, \* the variables of N_mod
    n_bits, d_bits

vars == <<arg, pc, i, a, t, to, n, d, n_bits, d_bits>>

-----------------------------------------------------------------------------
(* The number an array stands for, and the array of a number *)
Val(f) ==
    LET value[x \in Nat] == IF x \in DOMAIN f THEN f[x] + R * value[x + 1] ELSE 0
    IN  value[0]
Digits(v, size) == [x \in 0 .. size - 1 |-> (v \div R^x) % R]

BitLen(w) == Min({x \in 0 .. S : w < 2^x})

(* The bits of a number; bits is an upper bound. *)
N_bits(f, bits) ==
    LET nonzero == {x \in 0 .. ((bits - 1) \div S) : f[x] # 0}
    IN  IF nonzero = {} THEN 0 ELSE Max(nonzero) * S + BitLen(f[Max(nonzero)])

(* Positive, zero or negative.  With both numbers zero the code reads past the arrays;
   no caller compares two zeros, as the moduli are above one. *)
N_cmp(f, g, f_bits, g_bits) ==
    LET differ == {x \in 0 .. ((f_bits - 1) \div S) : f[x] # g[x]}
    IN  IF f_bits # g_bits THEN f_bits - g_bits
        ELSE IF differ = {} THEN 0 ELSE f[Max(differ)] - g[Max(differ)]

At(f, x) == IF x \in DOMAIN f THEN f[x] ELSE 0

(* The digits between the old and the new size become zero. *)
N_shift_right(f, bits, shift) ==
    LET size == (bits - shift - 1) \div S + 1
        old == (bits - 1) \div S + 1
        x0 == shift \div S
        off == shift % S
    IN  [x \in DOMAIN f |->
            IF x < size THEN (f[x + x0] \div 2^off) + ((At(f, x + x0 + 1) * 2^(S - off)) % R)
            ELSE IF x < old THEN 0 ELSE f[x]]

N_shift_left(f, bits, shift) ==
    LET size == (bits + shift - 1) \div S + 1
        x0 == shift \div S
        off == shift % S
    IN  [x \in DOMAIN f |->
            IF x >= size THEN f[x]
            ELSE IF x < x0 THEN 0
            ELSE ((f[x - x0] * 2^off) % R) + (IF x > x0 THEN f[x - x0 - 1] \div 2^(S - off) ELSE 0)]

(* Digits are subtracted, then borrows go up: carry[x] is the borrow from digit x. *)
N_sub(f, bits, g) ==
    LET size == (bits - 1) \div S + 1
        carry[x \in -1 .. size - 1] ==
            IF x = -1 THEN 0 ELSE (f[x] - g[x] + carry[x - 1]) \div R
    IN  [x \in DOMAIN f |-> IF x < size THEN (f[x] - g[x] + carry[x - 1]) % R ELSE f[x]]

(* The half digits of the product: column sums, with carries *)
N_mul(f, g) ==
    LET H == 2^(S \div 2)
        Half == 0 .. 2 * N_SIZE - 1
        am == [x \in Half |-> (f[x \div 2] \div H^(x % 2)) % H]
        bm == [x \in Half |-> (g[x \div 2] \div H^(x % 2)) % H]
        column[x \in Int, y \in Nat] ==
            IF y \notin Half THEN 0 ELSE am[y] * At(bm, x - y) + column[x, y + 1]
        cm[x \in Int] == IF x = -1 THEN 0 ELSE column[x, 0] + (cm[x - 1] \div H)
    IN  [x \in Half |-> (cm[2 * x] % H) + H * (cm[2 * x + 1] % H)]

-----------------------------------------------------------------------------
(* N_mod is called: n is the dividend, d the divisor shifted to its length. *)
StartMod(c, x) ==
    LET b == Digits(arg.m, N_SIZE)
        d0 == [y \in 0 .. 2 * N_SIZE - 1 |-> IF y < N_SIZE THEN 0 ELSE b[y - N_SIZE]]
        bits == N_bits(x, 2 * N_SIZE * S)
        d0_bits == N_bits(d0, 2 * N_SIZE * S)
    IN  /\ pc' = "mod" /\ to' = c /\ n' = x /\ n_bits' = bits
        /\ d' = IF d0_bits < bits THEN N_shift_left(d0, d0_bits, bits - d0_bits) ELSE d0
        /\ d_bits' = IF d0_bits < bits THEN bits ELSE d0_bits

Zero == Digits(0, 2 * N_SIZE)

(* Calls of N_modexp, and of N_mod on a product as N_modexp calls it; a modulus is a
   prime or the key of a certificate. *)
Init ==
    /\ arg \in [b : Number, e : Number \cap 0 .. MaxExp, m : Number \ {0, 1}]
               \cup [x : {v * w : v \in Number, w \in Number}, m : Number \ {0, 1}]
    /\ pc = "start" /\ i = 0 /\ a = Zero /\ t = Zero /\ to = "c"
    /\ n = Zero /\ d = Zero /\ n_bits = 0 /\ d_bits = 0

Exp == "e" \in DOMAIN arg
e_bits == N_bits(Digits(arg.e, N_SIZE), N_SIZE * S)

Start ==
    /\ pc = "start"
    /\ IF Exp THEN /\ a' = Digits(arg.b, 2 * N_SIZE) /\ t' = Digits(1, 2 * N_SIZE)
                   /\ pc' = "exp" /\ UNCHANGED <<to, n, d, n_bits, d_bits>>
       ELSE StartMod("c", Digits(arg.x, 2 * N_SIZE)) /\ UNCHANGED <<a, t>>
    /\ UNCHANGED <<arg, i>>

(* Mutant: the lowest bit of the exponent decides every time. *)
ModexpStep_Bit ==
    /\ pc = "exp" /\ i < e_bits
    /\ IF arg.e % 2 = 1 THEN StartMod("t", N_mul(t, a)) ELSE StartMod("a", N_mul(a, a))
    /\ UNCHANGED <<arg, i, a, t>>

(* The loop of N_modexp: t is multiplied if the bit is set, then a is squared. *)
ModexpStep ==
    /\ pc = "exp" /\ i < e_bits
    /\ IF (arg.e \div 2^i) % 2 = 1 THEN StartMod("t", N_mul(t, a))
       ELSE StartMod("a", N_mul(a, a))
    /\ UNCHANGED <<arg, i, a, t>>

ModexpDone ==
    /\ pc = "exp" /\ i >= e_bits
    /\ pc' = "done"
    /\ UNCHANGED <<arg, i, a, t, to, n, d, n_bits, d_bits>>

MoreMod == N_cmp(n, [x \in 0 .. 2 * N_SIZE - 1 |-> At(Digits(arg.m, N_SIZE), x)], n_bits,
                 N_bits(Digits(arg.m, N_SIZE), N_SIZE * S)) > 0

(* The loop of N_mod: d is aligned with n and subtracted. *)
ModStep ==
    /\ pc = "mod" /\ MoreMod
    /\ LET d1 == IF d_bits > n_bits THEN N_shift_right(d, d_bits, d_bits - n_bits) ELSE d
           d1_bits == IF d_bits > n_bits THEN n_bits ELSE d_bits
           more == N_cmp(d1, n, d1_bits, n_bits) > 0
       IN  /\ d' = IF more THEN N_shift_right(d1, d1_bits, 1) ELSE d1
           /\ d_bits' = IF more THEN d1_bits - 1 ELSE d1_bits
           /\ n' = N_sub(n, n_bits, d')
           /\ n_bits' = N_bits(n', n_bits)
    /\ UNCHANGED <<arg, pc, i, a, t, to>>

(* N_mod returns the low digits of n. *)
ModReturn ==
    /\ pc = "mod" /\ ~MoreMod
    /\ LET c == Digits(Val(n) % R^N_SIZE, 2 * N_SIZE)
       IN  CASE to = "c" -> pc' = "done" /\ UNCHANGED <<i, a, t, to, n, d, n_bits, d_bits>>
             [] to = "t" -> t' = c /\ StartMod("a", N_mul(a, a)) /\ UNCHANGED <<i, a>>
             [] to = "a" -> /\ a' = c /\ i' = i + 1 /\ pc' = "exp"
                            /\ UNCHANGED <<t, to, n, d, n_bits, d_bits>>
    /\ UNCHANGED arg

Next == Start \/ ModexpStep \/ ModexpDone \/ ModStep \/ ModReturn

Spec == Init /\ [][Next]_vars

-----------------------------------------------------------------------------
(* b^e % m, by e multiplications *)
PowerMod(b, e, m) ==
    LET power[x \in 0 .. e] == IF x = 0 THEN 1 % m ELSE (power[x - 1] * b) % m
    IN  power[e]

(* "r = b^e % m" (encodings/natural.c:137), up to a multiple of m *)
ModexpCorrect ==
    pc = "done" /\ Exp => Val(t) % arg.m = PowerMod(arg.b, arg.e, arg.m)

=============================================================================
