-------------------------- MODULE SubstringProofs --------------------------
(***************************************************************************)
(* What the search finds and what it misses, for every pattern, every      *)
(* stream and every way to cut it into pieces, and every width of int.     *)
(***************************************************************************)
EXTENDS Substring, TLAPS

\* Stands, byte by byte.
Fits(k, p) == p + k <= Len(text) /\ \A j \in 1 .. k : text[p + j] = ss.pattern[j]

\* The bytes looked at last are the ones that `state' counts.
Placed ==
  /\ ss.total = Len(text)
  /\ ss.state <= Len(text)
  /\ Fits(ss.state, Len(text) - ss.state)
  /\ ss.done => ss.state = 0

\* Each location stands for an occurrence...
Located ==
  \A n \in DOMAIN ss.locations :
    \E p \in 0 .. Len(text) : Fits(total_states, p) /\ ss.locations[n] = int(p)

\* ...that ends before the next one, and before the match under way, begins.
Apart ==
  Len(text) <= INT_MAX =>
    /\ \A n \in DOMAIN ss.locations :
         ss.locations[n] + total_states <= Len(text) - ss.state
    /\ \A m, n \in DOMAIN ss.locations :
         m < n => ss.locations[m] + total_states <= ss.locations[n]

\* A byte tells that the pattern does not stand after p bytes; or p lies
\* within bytes that look like the beginning of the pattern.
Refuted(p) ==
  \E j \in 1 .. total_states : p + j <= Len(text) /\ text[p + j] # ss.pattern[j]
Shadowed(p) == \E k \in 1 .. (total_states - 1) : k <= p /\ Fits(k, p - k)

\* Every place but the one of the match under way is settled.
Settled ==
  \A p \in 0 .. Len(text) :
    \/ p = Len(text) - ss.state
    \/ int(p) \in Reported
    \/ Refuted(p)
    \/ Shadowed(p)

SInv ==
  /\ TypeOK
  /\ Placed
  /\ Located
  /\ Apart
  /\ Settled
  /\ StopsAtLimit
-----------------------------------------------------------------------------
LEMMA PatternFacts ==
  ASSUME TypeOK
  PROVE  /\ ss.pattern \in Seq(Chars) /\ ss.pattern # <<>>
         /\ total_states \in Nat \ {0}
         /\ ss.state \in 0 .. (total_states - 1)
         /\ Len(text) \in Nat
BY SubstringAssumption DEF TypeOK, total_states

\* int keeps to its width, and changes nothing that fits.
LEMMA IntWidth ==
  ASSUME NEW n \in Int
  PROVE  int(n) \in (- INT_MAX - 1) .. INT_MAX
<1> DEFINE w == 2 * (INT_MAX + 1)
<1>1. INT_MAX \in Nat /\ w \in Nat \ {0}
  BY SubstringAssumption
<1>2. (n + INT_MAX + 1) % w \in 0 .. (w - 1)
  <2> HIDE DEF w
  <2> QED
    BY <1>1
<1> QED
  BY <1>1, <1>2 DEF int

LEMMA IntExact ==
  ASSUME NEW n \in 0 .. INT_MAX
  PROVE  int(n) = n
<1> DEFINE w == 2 * (INT_MAX + 1)
           x == n + INT_MAX + 1
<1>1. INT_MAX \in Nat /\ w \in Nat \ {0} /\ x \in 0 .. (w - 1)
  BY SubstringAssumption
<1>2. x % w = x
  <2> HIDE DEF w, x
  <2> QED
    BY <1>1
<1> QED
  BY <1>1, <1>2 DEF int

LEMMA StandsPointwise ==
  ASSUME TypeOK, NEW k \in 0 .. total_states, NEW p \in Nat
  PROVE  Stands(k, p) <=> Fits(k, p)
<1>1. text \in Seq(Chars) /\ ss.pattern \in Seq(Chars) /\ Len(ss.pattern) \in Nat
      /\ Len(text) \in Nat /\ total_states \in Nat /\ k <= Len(ss.pattern)
  BY PatternFacts DEF TypeOK, total_states
<1>2. SUFFICES ASSUME p + k <= Len(text)
               PROVE  SubSeq(text, p + 1, p + k) = SubSeq(ss.pattern, 1, k)
                        <=> \A j \in 1 .. k : text[p + j] = ss.pattern[j]
  BY DEF Stands, Fits
<1> DEFINE a == SubSeq(text, p + 1, p + k)
           b == SubSeq(ss.pattern, 1, k)
<1>3. /\ a \in Seq(Chars) /\ Len(a) = k
      /\ \A j \in 1 .. k : a[j] = text[p + j]
  BY <1>1, <1>2
<1>4. /\ b \in Seq(Chars) /\ Len(b) = k
      /\ \A j \in 1 .. k : b[j] = ss.pattern[j]
  BY <1>1
<1>5. a = b <=> \A j \in 1 .. k : a[j] = b[j]
  <2> HIDE DEF a, b
  <2> QED
    BY <1>3, <1>4
<1> QED
  BY <1>3, <1>4, <1>5

-----------------------------------------------------------------------------
(***************************************************************************)
(* One turn of the loop.                                                   *)
(***************************************************************************)
LEMMA TurnFacts ==
  ASSUME SInv, Turn
  PROVE  /\ Head(data) \in Chars
         /\ data' \in Seq(Chars) /\ text' \in Seq(Chars)
         /\ Len(text') = Len(text) + 1
         /\ text'[Len(text) + 1] = Head(data)
         /\ \A i \in 1 .. Len(text) : text'[i] = text[i]
         /\ ss.done = FALSE
BY DEF SInv, TypeOK, Turn

\* What was found to stand, or not to, stays so.
LEMMA TurnKeeps ==
  ASSUME SInv, Turn, ss'.pattern = ss.pattern
  PROVE  /\ total_states' = total_states
         /\ \A k, p \in Nat : Fits(k, p) => Fits(k, p)'
         /\ \A p \in Nat : Refuted(p) => Refuted(p)'
         /\ \A p \in Nat : Shadowed(p) => Shadowed(p)'
<1>1. Len(text) \in Nat /\ total_states \in Nat \ {0} /\ total_states' = total_states
  BY PatternFacts DEF SInv, total_states
<1>2. ASSUME NEW k \in Nat, NEW p \in Nat, Fits(k, p)
      PROVE  Fits(k, p)'
  BY <1>1, <1>2, TurnFacts DEF Fits
<1>3. ASSUME NEW p \in Nat, Refuted(p)
      PROVE  Refuted(p)'
  BY <1>1, <1>3, TurnFacts DEF Refuted
<1>4. ASSUME NEW p \in Nat, Shadowed(p)
      PROVE  Shadowed(p)'
  <2>1. PICK k \in 1 .. (total_states - 1) : k <= p /\ Fits(k, p - k)
    BY <1>4 DEF Shadowed
  <2>2. k \in Nat /\ p - k \in Nat
    BY <1>1, <2>1
  <2> QED
    BY <1>1, <1>2, <2>1, <2>2 DEF Shadowed
<1> QED
  BY <1>1, <1>2, <1>3, <1>4

\* The search takes another state and goes on.
LEMMA MoveFacts ==
  ASSUME TypeOK, NEW s \in 0 .. (total_states - 1),
         ss' = [ss EXCEPT !.state = s, !.total = @ + 1]
  PROVE  /\ ss'.pattern = ss.pattern /\ ss'.state = s
         /\ ss'.total = ss.total + 1 /\ ss'.locations = ss.locations
         /\ ss'.done = ss.done
         /\ ss' \in [pattern : Patterns, state : 0 .. (total_states - 1), total : Nat,
                     locations : Seq((- INT_MAX - 1) .. INT_MAX), done : BOOLEAN]
<1> DEFINE Records(P, S, T, O) ==
             [pattern : P, state : S, total : T, locations : O, done : BOOLEAN]
<1>1. ss \in Records(Patterns, 0 .. (total_states - 1), Nat,
                     Seq((- INT_MAX - 1) .. INT_MAX))
  BY DEF TypeOK
<1>2. ss.total + 1 \in Nat
  BY <1>1
<1>3. \A P, S, T, O :
        ss \in Records(P, S, T, O) /\ s \in S /\ ss.total + 1 \in T =>
          /\ ss'.pattern = ss.pattern /\ ss'.state = s
          /\ ss'.total = ss.total + 1 /\ ss'.locations = ss.locations
          /\ ss'.done = ss.done
          /\ ss' \in Records(P, S, T, O)
  OBVIOUS
<1> QED
  BY <1>1, <1>2, <1>3

\* The byte fits: one more byte of the match under way.
LEMMA MatchesStep ==
  ASSUME SInv, Matches
  PROVE  SInv'
<1>t. TypeOK /\ Placed /\ Located /\ Apart /\ Settled /\ StopsAtLimit
  BY DEF SInv
<1>1. /\ Turn
      /\ Head(data) = ss.pattern[ss.state + 1]
      /\ ss.state + 1 < total_states
  BY DEF Matches, Expected
<1>2. /\ ss'.pattern = ss.pattern /\ ss'.state = ss.state + 1
      /\ ss'.total = ss.total + 1 /\ ss'.locations = ss.locations
      /\ ss'.done = ss.done
      /\ ss' \in [pattern : Patterns, state : 0 .. (total_states - 1), total : Nat,
                  locations : Seq((- INT_MAX - 1) .. INT_MAX), done : BOOLEAN]
  <2>1. ss.state + 1 \in 0 .. (total_states - 1)
    BY <1>t, <1>1, PatternFacts
  <2>2. ss' = [ss EXCEPT !.state = ss.state + 1, !.total = @ + 1]
    BY DEF Matches
  <2> QED
    BY <1>t, <2>1, <2>2, MoveFacts
<1> DEFINE L == Len(text)
           s == ss.state
<1>3. L \in Nat /\ total_states \in Nat \ {0} /\ s \in Nat /\ s <= L /\ ss.done = FALSE
  <2>1. ss.done = FALSE
    BY <1>1, TurnFacts
  <2> QED
    BY <1>t, <2>1, PatternFacts DEF Placed
<1>4. total_states' = total_states /\ Len(text') = L + 1
  BY <1>1, <1>2, TurnFacts, TurnKeeps
<1>5. TypeOK'
  BY <1>1, <1>2, <1>4, TurnFacts DEF TypeOK
<1>6. ASSUME NEW k \in Nat, NEW p \in Nat, k = s + 1, p = L - s
      PROVE  Fits(k, p)'
  <2>1. Fits(s, p) /\ p + k = L + 1
    BY <1>t, <1>3, <1>6 DEF Placed
  <2>2. \A j \in 1 .. k : text'[p + j] = ss.pattern[j]
    <3> SUFFICES ASSUME NEW j \in 1 .. k
                 PROVE  text'[p + j] = ss.pattern[j]
      OBVIOUS
    <3>1. CASE j = k
      BY <1>1, <1>3, <1>6, <2>1, <3>1, TurnFacts
    <3>2. CASE j \in 1 .. s
      <4>1. p + j \in 1 .. L
        BY <1>3, <1>6, <2>1, <3>2
      <4> QED
        BY <1>1, <2>1, <3>2, <4>1, TurnFacts DEF Fits
    <3> QED
      BY <1>3, <1>6, <3>1, <3>2
  <2> QED
    BY <1>2, <1>4, <2>1, <2>2 DEF Fits
<1>7. Placed'
  <2>1. /\ ss'.state = s + 1 /\ Len(text') - ss'.state = L - s
        /\ s + 1 \in Nat /\ L - s \in Nat
    BY <1>2, <1>3, <1>4
  <2>2. Fits(ss.state, Len(text) - ss.state)'
    BY <1>6, <2>1 DEF Fits
  <2> QED
    BY <1>t, <1>2, <1>3, <1>4, <2>2 DEF Placed
<1>8. Located'
  <2> SUFFICES ASSUME NEW n \in DOMAIN ss.locations
               PROVE  \E p \in 0 .. (L + 1) : Fits(total_states, p)' /\ ss.locations[n] = int(p)
    BY <1>2, <1>4 DEF Located
  <2>1. PICK p \in 0 .. L : Fits(total_states, p) /\ ss.locations[n] = int(p)
    BY <1>t DEF Located
  <2>2. Fits(total_states, p)'
    BY <1>1, <1>2, <1>3, <2>1, TurnKeeps
  <2> QED
    BY <1>3, <2>1, <2>2
<1>9. Apart'
  <2>1. Len(text') - ss'.state = L - s
    BY <1>2, <1>3, <1>4
  <2>2. L + 1 <= INT_MAX => L <= INT_MAX
    BY <1>3, SubstringAssumption
  <2> QED
    BY <1>t, <1>2, <1>4, <2>1, <2>2 DEF Apart
<1>10. Settled'
  <2> SUFFICES ASSUME NEW p \in 0 .. (L + 1)
               PROVE  \/ p = (L + 1) - (s + 1)
                      \/ int(p) \in Reported
                      \/ Refuted(p)'
                      \/ Shadowed(p)'
    BY <1>2, <1>4 DEF Settled, Reported
  <2>1. CASE p = L + 1
    <3>1. s + 1 \in 1 .. (total_states' - 1) /\ s + 1 <= p /\ p - (s + 1) = L - s
      BY <1>1, <1>3, <1>4, <2>1
    <3>2. s + 1 \in Nat /\ p - (s + 1) \in Nat
      BY <1>3, <3>1
    <3> QED
      BY <1>6, <3>1, <3>2 DEF Shadowed
  <2>2. CASE p \in 0 .. L
    BY <1>t, <1>1, <1>2, <1>3, <2>2, TurnKeeps DEF Settled
  <2> QED
    BY <1>3, <2>1, <2>2
<1>11. StopsAtLimit'
  BY <1>t, <1>2 DEF StopsAtLimit
<1> QED
  BY <1>5, <1>7, <1>8, <1>9, <1>10, <1>11 DEF SInv

\* The byte does not fit: the match under way is refuted.
LEMMA DiffersStep ==
  ASSUME SInv, Differs
  PROVE  SInv'
<1>t. TypeOK /\ Placed /\ Located /\ Apart /\ Settled /\ StopsAtLimit
  BY DEF SInv
<1>1. Turn /\ Head(data) # ss.pattern[ss.state + 1]
  BY DEF Differs, Expected
<1> DEFINE L == Len(text)
           s == ss.state
<1>2. /\ ss'.pattern = ss.pattern /\ ss'.state = 0
      /\ ss'.total = ss.total + 1 /\ ss'.locations = ss.locations
      /\ ss'.done = ss.done
      /\ ss' \in [pattern : Patterns, state : 0 .. (total_states - 1), total : Nat,
                  locations : Seq((- INT_MAX - 1) .. INT_MAX), done : BOOLEAN]
  <2>1. 0 \in 0 .. (total_states - 1)
    BY <1>t, PatternFacts
  <2>2. ss' = [ss EXCEPT !.state = 0, !.total = @ + 1]
    BY DEF Differs
  <2> QED
    BY <1>t, <2>1, <2>2, MoveFacts
<1>3. /\ L \in Nat /\ total_states \in Nat \ {0} /\ s \in Nat /\ s <= L
      /\ s + 1 \in 1 .. total_states
  BY <1>t, PatternFacts DEF Placed
<1>4. total_states' = total_states /\ Len(text') = L + 1
  BY <1>1, <1>2, TurnFacts, TurnKeeps
<1>5. TypeOK'
  BY <1>1, <1>2, <1>4, TurnFacts DEF TypeOK
<1>6. Placed'
  <2>1. Fits(ss.state, Len(text) - ss.state)'
    BY <1>2, <1>3, <1>4 DEF Fits
  <2> QED
    BY <1>t, <1>2, <1>3, <1>4, <2>1 DEF Placed
<1>7. Located'
  <2> SUFFICES ASSUME NEW n \in DOMAIN ss.locations
               PROVE  \E p \in 0 .. (L + 1) : Fits(total_states, p)' /\ ss.locations[n] = int(p)
    BY <1>2, <1>4 DEF Located
  <2>1. PICK p \in 0 .. L : Fits(total_states, p) /\ ss.locations[n] = int(p)
    BY <1>t DEF Located
  <2>2. Fits(total_states, p)'
    BY <1>1, <1>2, <1>3, <2>1, TurnKeeps
  <2> QED
    BY <1>3, <2>1, <2>2
<1>8. Apart'
  <2> SUFFICES ASSUME L + 1 <= INT_MAX
               PROVE  /\ \A n \in DOMAIN ss.locations :
                           ss.locations[n] + total_states <= L + 1
                      /\ \A m, n \in DOMAIN ss.locations :
                           m < n => ss.locations[m] + total_states <= ss.locations[n]
    BY <1>2, <1>3, <1>4 DEF Apart
  <2>1. L <= INT_MAX
    BY <1>3, SubstringAssumption
  <2>2. \A n \in DOMAIN ss.locations : ss.locations[n] \in Int
    BY <1>t, SubstringAssumption DEF TypeOK
  <2> QED
    BY <1>t, <1>3, <2>1, <2>2 DEF Apart
<1>9. Settled'
  <2> SUFFICES ASSUME NEW p \in 0 .. L
               PROVE  \/ int(p) \in Reported
                      \/ Refuted(p)'
                      \/ Shadowed(p)'
    BY <1>2, <1>3, <1>4 DEF Settled, Reported
  <2>1. CASE p = L - s
    <3>1. p + (s + 1) = L + 1
      BY <1>3, <2>1
    <3>2. text'[p + (s + 1)] # ss.pattern[s + 1]
      BY <1>1, <3>1, TurnFacts
    <3> QED
      BY <1>2, <1>3, <1>4, <3>1, <3>2 DEF Refuted
  <2>2. CASE p # L - s
    BY <1>t, <1>1, <1>2, <1>3, <2>2, TurnKeeps DEF Settled
  <2> QED
    BY <2>1, <2>2
<1>10. StopsAtLimit'
  BY <1>t, <1>2 DEF StopsAtLimit
<1> QED
  BY <1>5, <1>6, <1>7, <1>8, <1>9, <1>10 DEF SInv

\* The byte ends a match, and its place is stored.
LEMMA CompletesStep ==
  ASSUME SInv, Completes
  PROVE  SInv'
<1>t. TypeOK /\ Placed /\ Located /\ Apart /\ Settled /\ StopsAtLimit
  BY DEF SInv
<1>1. Turn /\ Head(data) = ss.pattern[ss.state + 1] /\ ss.state + 1 = total_states
  BY DEF Completes, Expected
<1> DEFINE L == Len(text)
           s == ss.state
           q == L - s
           N == Len(ss.locations)
           full == AtLimit(N + 1)
           locs == Append(ss.locations, int(ss.total - (total_states - 1)))
           Ints == (- INT_MAX - 1) .. INT_MAX
<1>2. /\ L \in Nat /\ total_states \in Nat \ {0} /\ s \in Nat /\ s <= L
      /\ s + 1 \in 1 .. total_states /\ q \in 0 .. L
      /\ s = total_states - 1 /\ ss.total - (total_states - 1) = q
  BY <1>t, <1>1, PatternFacts DEF Placed
<1>3. /\ ss.locations \in Seq(Ints) /\ ss.total \in Nat /\ N \in Nat
      /\ DOMAIN ss.locations = 1 .. N /\ ss.done = FALSE
  <2>1. ss.done = FALSE
    BY <1>1, TurnFacts
  <2> QED
    BY <1>t, <2>1 DEF TypeOK
<1>4. /\ locs \in Seq(Ints) /\ Len(locs) = N + 1 /\ DOMAIN locs = 1 .. (N + 1)
      /\ \A n \in 1 .. N : locs[n] = ss.locations[n]
      /\ locs[N + 1] = int(q)
  <2>1. locs = Append(ss.locations, int(q)) /\ int(q) \in Ints
    <3>1. locs = Append(ss.locations, int(q))
      BY <1>2, Zenon
    <3>2. q \in Int
      BY <1>2
    <3> QED
      BY <3>1, <3>2, IntWidth, Zenon
  <2> HIDE DEF locs, N, q, Ints
  <2>2. ss.locations \in Seq(Ints) /\ N = Len(ss.locations)
    BY <1>3 DEF N
  <2> QED
    BY <2>1, <2>2
<1>5. /\ ss'.pattern = ss.pattern /\ ss'.state = 0
      /\ ss'.total = ss.total + 1 /\ ss'.locations = locs
      /\ ss'.done = full
      /\ ss' \in [pattern : Patterns, state : 0 .. (total_states - 1), total : Nat,
                  locations : Seq(Ints), done : BOOLEAN]
  <2> DEFINE Records(P, S, T, O) ==
               [pattern : P, state : S, total : T, locations : O, done : BOOLEAN]
  <2>1. ss \in Records(Patterns, 0 .. (total_states - 1), Nat, Seq(Ints))
    BY <1>t DEF TypeOK
  <2>2. /\ ss.total + 1 \in Nat /\ 0 \in 0 .. (total_states - 1)
        /\ full \in BOOLEAN /\ locs \in Seq(Ints)
    BY <1>2, <1>3, <1>4 DEF AtLimit
  <2>3. ss' = [ss EXCEPT !.state = 0, !.total = @ + 1, !.locations = locs, !.done = full]
    BY DEF Completes
  <2> HIDE DEF locs, full, N, q, Ints
  <2>4. \A P, S, T, O :
          /\ ss \in Records(P, S, T, O)
          /\ 0 \in S /\ ss.total + 1 \in T /\ locs \in O /\ full \in BOOLEAN
          => /\ ss'.pattern = ss.pattern /\ ss'.state = 0
             /\ ss'.total = ss.total + 1 /\ ss'.locations = locs
             /\ ss'.done = full
             /\ ss' \in Records(P, S, T, O)
    BY <2>3
  <2> QED
    BY <2>1, <2>2, <2>4
<1>6. total_states' = total_states /\ Len(text') = L + 1
  BY <1>1, <1>5, TurnFacts, TurnKeeps
<1>7. TypeOK'
  BY <1>1, <1>5, <1>6, TurnFacts DEF TypeOK
<1>8. Placed'
  <2>1. Fits(ss.state, Len(text) - ss.state)'
    BY <1>2, <1>5, <1>6 DEF Fits
  <2> QED
    BY <1>t, <1>2, <1>5, <1>6, <2>1 DEF Placed
\* The pattern stands where the location says.
<1>9. ASSUME NEW p \in 0 .. L, p = q
      PROVE  Fits(total_states, p)'
  <2>1. Fits(s, p) /\ p + total_states = L + 1
    BY <1>t, <1>2, <1>9 DEF Placed
  <2>2. ASSUME NEW j \in 1 .. total_states
        PROVE  text'[p + j] = ss.pattern[j]
    <3>1. CASE j = total_states
      BY <1>1, <1>2, <2>1, <3>1, TurnFacts
    <3>2. CASE j \in 1 .. s
      <4>1. p + j \in 1 .. L
        BY <1>2, <1>9, <3>2
      <4> QED
        BY <1>1, <2>1, <3>2, <4>1, TurnFacts DEF Fits
    <3> QED
      BY <1>2, <3>1, <3>2
  <2> QED
    BY <1>5, <1>6, <2>1, <2>2 DEF Fits
<1>10. Located'
  <2> SUFFICES ASSUME NEW n \in 1 .. (N + 1)
               PROVE  \E p \in 0 .. (L + 1) : Fits(total_states, p)' /\ locs[n] = int(p)
    BY <1>4, <1>5, <1>6 DEF Located
  <2>1. CASE n = N + 1
    BY <1>2, <1>4, <1>9, <2>1
  <2>2. CASE n \in 1 .. N
    <3>1. PICK p \in 0 .. L : Fits(total_states, p) /\ ss.locations[n] = int(p)
      BY <1>t, <1>3, <2>2 DEF Located
    <3>2. Fits(total_states, p)'
      BY <1>1, <1>2, <1>5, <3>1, TurnKeeps
    <3> QED
      BY <1>2, <1>4, <2>2, <3>1, <3>2
  <2> QED
    BY <1>3, <2>1, <2>2
<1>11. Apart'
  <2> SUFFICES ASSUME L + 1 <= INT_MAX
               PROVE  /\ \A n \in 1 .. (N + 1) : locs[n] + total_states <= L + 1
                      /\ \A m, n \in 1 .. (N + 1) :
                           m < n => locs[m] + total_states <= locs[n]
    <3>1. Len(text') - ss'.state = L + 1 /\ DOMAIN ss'.locations = 1 .. (N + 1)
      BY <1>2, <1>4, <1>5, <1>6
    <3> HIDE DEF locs, N, L
    <3> QED
      BY <1>5, <1>6, <3>1 DEF Apart
  <2>1. L <= INT_MAX /\ q \in 0 .. INT_MAX
    BY <1>2, SubstringAssumption
  <2>2. locs[N + 1] = q
    BY <1>4, <2>1, IntExact
  <2>3. /\ \A n \in 1 .. N : locs[n] + total_states <= q
        /\ \A m, n \in 1 .. N : m < n => locs[m] + total_states <= locs[n]
    BY <1>t, <1>3, <1>4, <2>1 DEF Apart
  <2>4. \A n \in 1 .. N : locs[n] \in Int
    BY <1>3, <1>4, SubstringAssumption
  <2>5. q + total_states = L + 1 /\ q <= L + 1
    BY <1>2
  <2> HIDE DEF locs, N, q, L
  <2>6. N \in Nat /\ q \in Int /\ L \in Int /\ total_states \in Nat
    BY <1>2, <1>3, <2>1
  <2>7. ASSUME NEW n \in 1 .. (N + 1)
        PROVE  locs[n] + total_states <= L + 1
    BY <2>2, <2>3, <2>4, <2>5, <2>6
  <2>8. ASSUME NEW m \in 1 .. (N + 1), NEW n \in 1 .. (N + 1), m < n
        PROVE  locs[m] + total_states <= locs[n]
    BY <2>2, <2>3, <2>4, <2>6, <2>8
  <2> QED
    BY <2>7, <2>8
<1>12. Settled'
  <2>1. \A v : v \in Reported \/ v = int(q) => v \in Reported'
    <3> HIDE DEF locs, q
    <3>1. \A n \in DOMAIN ss.locations : n \in DOMAIN locs /\ locs[n] = ss.locations[n]
      BY <1>3, <1>4
    <3>2. N + 1 \in DOMAIN locs /\ locs[N + 1] = int(q)
      BY <1>3, <1>4
    <3> QED
      BY <1>5, <3>1, <3>2 DEF Reported
  <2> SUFFICES ASSUME NEW p \in 0 .. L
               PROVE  \/ int(p) \in Reported'
                      \/ Refuted(p)'
                      \/ Shadowed(p)'
    BY <1>2, <1>5, <1>6 DEF Settled
  <2>2. CASE p = q
    BY <2>1, <2>2
  <2>3. CASE p # q
    BY <1>t, <1>1, <1>2, <1>5, <2>1, <2>3, TurnKeeps DEF Settled
  <2> QED
    BY <2>2, <2>3
<1>13. StopsAtLimit'
  <2>1. MAX_OCCURANCE \in Nat \ {0} /\ N <= MAX_OCCURANCE /\ N # MAX_OCCURANCE
    BY <1>t, <1>3, SubstringAssumption DEF StopsAtLimit
  <2>2. N + 1 <= MAX_OCCURANCE /\ (full <=> N + 1 = MAX_OCCURANCE)
    BY <1>3, <2>1 DEF AtLimit
  <2> HIDE DEF locs, full, N
  <2> QED
    BY <1>4, <1>5, <2>2 DEF StopsAtLimit
<1> QED
  BY <1>7, <1>8, <1>10, <1>11, <1>12, <1>13 DEF SInv

-----------------------------------------------------------------------------
LEMMA SInvInit ==
  Init => SInv
<1> SUFFICES ASSUME Init
             PROVE  SInv
  OBVIOUS
<1>1. PICK pattern \in Patterns : ss = sstring_init(pattern)
  BY DEF Init
<1>2. /\ ss.pattern = pattern /\ ss.state = 0 /\ ss.total = 0
      /\ ss.locations = <<>> /\ ss.done = FALSE /\ text = <<>> /\ data = <<>>
  BY <1>1 DEF Init, sstring_init
<1>3. total_states \in Nat \ {0}
  BY <1>2, SubstringAssumption DEF total_states
<1>4. TypeOK
  BY <1>1, <1>2, <1>3 DEF TypeOK, sstring_init
<1>5. Placed /\ Located /\ Apart /\ StopsAtLimit
  BY <1>2, <1>3, SubstringAssumption DEF Placed, Located, Apart, StopsAtLimit, Fits
<1>6. Settled
  BY <1>2 DEF Settled
<1> QED
  BY <1>4, <1>5, <1>6 DEF SInv

LEMMA SInvStep ==
  SInv /\ [Next]_vars => SInv'
<1> SUFFICES ASSUME SInv, [Next]_vars
             PROVE  SInv'
  OBVIOUS
<1>1. CASE UNCHANGED <<ss, text>> /\ data' \in Seq(Chars)
  <2>1. ss' = ss /\ text' = text
    BY <1>1
  <2>2. TypeOK'
    BY <1>1, <2>1 DEF SInv, TypeOK, total_states
  <2>3. Placed' /\ StopsAtLimit'
    BY <2>1 DEF SInv, Placed, StopsAtLimit, Fits
  <2>4. Located'
    BY <2>1 DEF SInv, Located, Fits, total_states
  <2>5. Apart'
    BY <2>1 DEF SInv, Apart, total_states
  <2>6. Settled'
    BY <2>1 DEF SInv, Settled, Fits, Refuted, Shadowed, Reported, total_states
  <2> QED
    BY <2>2, <2>3, <2>4, <2>5, <2>6 DEF SInv
<1>2. ASSUME NEW piece \in Pieces, Call(piece)
      PROVE  UNCHANGED <<ss, text>> /\ data' \in Seq(Chars)
  BY <1>2 DEF Call, Pieces
<1>3. Return => UNCHANGED <<ss, text>> /\ data' \in Seq(Chars)
  BY DEF Return
<1>4. Terminated \/ UNCHANGED vars => UNCHANGED <<ss, text>> /\ data' \in Seq(Chars)
  BY DEF Terminated, vars, SInv, TypeOK
<1> QED
  BY <1>1, <1>2, <1>3, <1>4, MatchesStep, CompletesStep, DiffersStep DEF Next

THEOREM SearchInvariance ==
  Spec => []SInv
BY SInvInit, SInvStep, PTL DEF Spec

(***************************************************************************)
(* Type correctness: the state stays below the length of the pattern, and  *)
(* every location fits an int.                                             *)
(***************************************************************************)
THEOREM SearchTypes ==
  Spec => []TypeOK
<1>1. SInv => TypeOK
  BY DEF SInv
<1> QED
  BY <1>1, SearchInvariance, PTL

(***************************************************************************)
(* The search never stores more locations than sstring_init has made room  *)
(* for.                                                                    *)
(***************************************************************************)
THEOREM RoomForLocations ==
  Spec => []StopsAtLimit
<1>1. SInv => StopsAtLimit
  BY DEF SInv
<1> QED
  BY <1>1, SearchInvariance, PTL

(***************************************************************************)
(* Every location reported is a place where the pattern stands.            *)
(***************************************************************************)
THEOREM LocationsAreOccurrences ==
  Spec => []ReportsOccurrences
<1>1. SInv => ReportsOccurrences
  <2> SUFFICES ASSUME SInv
               PROVE  ReportsOccurrences
    OBVIOUS
  <2>1. TypeOK /\ Located /\ Apart /\ total_states \in 0 .. total_states
    BY PatternFacts DEF SInv
  <2>2. ASSUME NEW n \in DOMAIN ss.locations
        PROVE  \E p \in Occurrences : ss.locations[n] = int(p)
    <3>1. PICK p \in 0 .. Len(text) : Fits(total_states, p) /\ ss.locations[n] = int(p)
      BY <2>1 DEF Located
    <3>2. Stands(total_states, p)
      BY <2>1, <3>1, StandsPointwise
    <3> QED
      BY <3>1, <3>2 DEF Occurrences
  <2> QED
    BY <2>1, <2>2 DEF Apart, ReportsOccurrences
<1> QED
  BY <1>1, SearchInvariance, PTL

(***************************************************************************)
(* An occurrence goes unreported only if it begins within bytes that look  *)
(* like the beginning of the pattern.                                      *)
(***************************************************************************)
THEOREM MissesAreShadowed ==
  Spec => []MissesOnlyAfterPrefix
<1>1. SInv => MissesOnlyAfterPrefix
  <2> SUFFICES ASSUME SInv, NEW p \in Occurrences
               PROVE  \/ int(p) \in Reported
                      \/ \E k \in 1 .. (total_states - 1) : k <= p /\ Stands(k, p - k)
    BY DEF MissesOnlyAfterPrefix
  <2>1. /\ TypeOK /\ Settled /\ total_states \in Nat \ {0}
        /\ ss.state \in 0 .. (total_states - 1) /\ Len(text) \in Nat
    BY PatternFacts DEF SInv
  <2>2. p \in 0 .. Len(text) /\ Stands(total_states, p)
    BY DEF Occurrences
  <2>3. Fits(total_states, p)
    BY <2>1, <2>2, StandsPointwise
  <2>4. p # Len(text) - ss.state /\ ~ Refuted(p)
    BY <2>1, <2>2, <2>3 DEF Fits, Refuted
  <2>5. ASSUME Shadowed(p)
        PROVE  \E k \in 1 .. (total_states - 1) : k <= p /\ Stands(k, p - k)
    <3>1. PICK k \in 1 .. (total_states - 1) : k <= p /\ Fits(k, p - k)
      BY <2>5 DEF Shadowed
    <3>2. k \in 0 .. total_states /\ p - k \in Nat
      BY <2>1, <2>2, <3>1
    <3> QED
      BY <2>1, <3>1, <3>2, StandsPointwise
  <2> QED
    BY <2>1, <2>2, <2>4, <2>5 DEF Settled
<1> QED
  BY <1>1, SearchInvariance, PTL
=============================================================================
