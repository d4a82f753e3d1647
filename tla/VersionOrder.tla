---------------------------- MODULE VersionOrder ----------------------------
(***************************************************************************)
(* How the command line orders versions and proposes the next one          *)
(* (utils/versioning.ts).  A version is the sequence of its tokens.  A     *)
(* token is a number, or a word and the digits at its end ("rc9" is the    *)
(* word rc and the digits <<9>>); words are numbered in their order.       *)
(*                                                                         *)
(* Left out: a version that ends in a separator, a word with digits inside *)
(* it, and the difference of two texts with the same tokens (RC9, rc-9 and *)
(* 01, 1), which this order does not tell apart but a registry does.       *)
(***************************************************************************)
EXTENDS Integers, Sequences

\* A number is a JavaScript Number.
CONSTANTS
    Exact,      \* 2^53: from here on not every whole number is one
    Printed,    \* 10^21: from here on String writes an exponent
    MaxDigits   \* so many digits at the end of a word make a number below Exact

ASSUME NumberAssumption ==
    /\ Exact \in Nat /\ Exact >= 4 /\ Exact % 4 = 0
    /\ Printed \in Nat /\ 2 * Exact < Printed
    /\ MaxDigits \in Nat /\ 10 ^ MaxDigits <= Exact

\* Every number below Exact, then every second one, then every fourth: further
\* up they are wider apart still, which changes nothing in NextNumber.
Numbers == {n \in 0..(Printed - 1) : n < Exact \/ (n < 2 * Exact /\ n % 2 = 0) \/ n % 4 = 0}

Token == [kind : {"number"}, value : Numbers, digits : {<<>>}]
         \cup [kind : {"text"}, value : Nat, digits : Seq(0..9)]
Number(n) == [kind |-> "number", value |-> n, digits |-> <<>>]
Text(w, ds) == [kind |-> "text", value |-> w, digits |-> ds]

Order(m, n) == IF m < n THEN -1 ELSE IF m > n THEN 1 ELSE 0

\* sign[i] is the order of two sequences at a position both have.  The first
\* position where they differ decides; a sequence that ends first is the smaller.
Positions(s, t) == 1..(IF Len(s) > Len(t) THEN Len(s) ELSE Len(t))
Common(s, t) == DOMAIN s \cap DOMAIN t
FirstOf(S) == CHOOSE i \in S : \A k \in S : i <= k
Lexicographic(s, t, sign) ==
    LET D == {i \in Positions(s, t) : i \in Common(s, t) => sign[i] # 0}
    IN  IF D = {} THEN 0
        ELSE IF FirstOf(D) > Len(s) THEN -1
        ELSE IF FirstOf(D) > Len(t) THEN 1
        ELSE sign[FirstOf(D)]

\* Numbers by value and above text; text as strings, its digits one by one.
CompareDigits(s, t) ==
    Lexicographic(s, t, [i \in Common(s, t) |-> Order(s[i], t[i])])
CompareTokens(a, b) ==
    IF a.kind # b.kind THEN IF a.kind = "number" THEN 1 ELSE -1
    ELSE IF a.value # b.value \/ a.kind = "number" THEN Order(a.value, b.value)
    ELSE CompareDigits(a.digits, b.digits)

CompareVersions(v, w) ==
    Lexicographic(v, w, [i \in Common(v, w) |-> CompareTokens(v[i], w[i])])
ComparePrefix(v, w) == CompareVersions(SubSeq(v, 1, 1), SubSeq(w, 1, 1))

\* maxVersion: the first of those that nothing is greater than.
MaxVersion(vs) == CHOOSE v \in vs : \A w \in vs : CompareVersions(w, v) <= 0

\* Decimal addition of one, in the same width unless all digits are nine.
AllNines(ds) == \A i \in DOMAIN ds : ds[i] = 9
NextDigits(ds) ==
    IF AllNines(ds) THEN <<1>> \o [i \in DOMAIN ds |-> 0]
    ELSE LET p == CHOOSE i \in DOMAIN ds :
                    ds[i] # 9 /\ \A k \in DOMAIN ds : k > i => ds[k] = 9
         IN  [i \in DOMAIN ds |->
                IF i < p THEN ds[i] ELSE IF i = p THEN ds[i] + 1 ELSE 0]

\* n + 1, rounded to a number; half-way between two, to the one whose last bit
\* is 0.  From Exact on that is n itself or, once more, the next one.
NextNumber(n) ==
    IF n < Exact THEN n + 1
    ELSE IF n < 2 * Exact /\ n % 4 = 2 THEN n + 2
    ELSE n

\* suggestNextVersion: the digits at the end are counted up, whatever they
\* belong to; a version without any gets a new token.
SuggestNextVersion(v) ==
    LET last == v[Len(v)]
    IN  IF v = <<>> THEN <<Number(0), Number(0), Number(1)>>
        ELSE IF last.kind = "number" THEN [v EXCEPT ![Len(v)] = Number(NextNumber(last.value))]
        ELSE IF last.digits = <<>> THEN Append(v, Number(1))
        ELSE [v EXCEPT ![Len(v)].digits = NextDigits(last.digits)]

\* The digits at the end of a word can be counted up as a number.
Countable(v) ==
    v # <<>> /\ v[Len(v)].kind = "text" => Len(v[Len(v)].digits) <= MaxDigits

\* The versions whose suggestion is smaller (rc9), and those whose suggestion
\* is the same version (1.9007199254740992).
CarriesInText(v) ==
    /\ v # <<>> /\ v[Len(v)].kind = "text"
    /\ v[Len(v)].digits # <<>> /\ AllNines(v[Len(v)].digits)
StaysPut(v) ==
    /\ v # <<>> /\ v[Len(v)].kind = "number"
    /\ NextNumber(v[Len(v)].value) = v[Len(v)].value
=============================================================================
