------------------------------- MODULE Money -------------------------------
(***************************************************************************)
(* Quantities, amounts and the checks a drafted payment must pass:         *)
(* decimal.ts and detectDiscrepancies of payments.ts.                      *)
(*                                                                         *)
(* A text with a decimal point is a record [negative, whole, fraction],    *)
(* fraction the sequence of the digits behind the point.  Quantities are   *)
(* kept in hundredths, money in minor units; both are integers, exact as   *)
(* long as the code's doubles and the table's 32-bit columns hold them.    *)
(***************************************************************************)
EXTENDS Integers, Sequences

QUANTITY_SCALE == 100

Magnitude(n) == IF n < 0 THEN -n ELSE n
Signed(negative, n) == IF negative THEN -n ELSE n

\* The n-th decimal of a text, which may have fewer.
Decimal(t, n) == IF n <= Len(t.fraction) THEN t.fraction[n] ELSE 0

\* Mutant of toQuantityScaled: what lies behind the second decimal is dropped.
toQuantityCut(t) ==
  Signed(t.negative, t.whole * QUANTITY_SCALE + 10 * Decimal(t, 1) + Decimal(t, 2))

\* The third decimal decides about rounding; those behind it are not read.
toQuantityScaled(t) ==
  Signed(t.negative,
         t.whole * QUANTITY_SCALE + 10 * Decimal(t, 1) + Decimal(t, 2)
           + IF Decimal(t, 3) >= 5 THEN 1 ELSE 0)

\* quantityToString, minorToPlainDecimal: two digits behind the point.
PlainDecimal(n) ==
  LET part == Magnitude(n) % QUANTITY_SCALE
  IN [negative |-> n < 0, whole |-> Magnitude(n) \div QUANTITY_SCALE,
      fraction |-> <<part \div 10, part % 10>>]

\* Mutant of computeAmountMinor: an exact half is rounded down.
computeAmountDown(quantity, rate) ==
  LET product == quantity * rate
      whole == Magnitude(product) \div QUANTITY_SCALE
      rest == Magnitude(product) % QUANTITY_SCALE
  IN Signed(product < 0, IF rest * 2 > QUANTITY_SCALE THEN whole + 1 ELSE whole)

\* Quantity times rate, rounded half up.
computeAmountMinor(quantity, rate) ==
  LET product == quantity * rate
      whole == Magnitude(product) \div QUANTITY_SCALE
      rest == Magnitude(product) % QUANTITY_SCALE
  IN Signed(product < 0, IF rest * 2 >= QUANTITY_SCALE THEN whole + 1 ELSE whole)

NoClaim == [negative |-> FALSE, whole |-> -1, fraction |-> << >>]
NoCeiling == -1

Flag(code, raised) == IF raised THEN {code} ELSE {}

\* Mutant of detectDiscrepancies: a rate below the profile's is passed over.
detectDiscrepanciesAbove(d) ==
  Flag("QUANTITY_ADJUSTED", d.claimed # NoClaim /\ toQuantityScaled(d.claimed) # d.quantity)
    \cup Flag("RATE_ABOVE_CEILING", d.ceiling # NoCeiling /\ d.rate > d.ceiling)
    \cup Flag("RATE_DIFFERS_FROM_PROFILE", d.rate > d.listRate)
    \cup Flag("UNUSUALLY_HIGH_HOURS", d.basis = "HOURLY" /\ d.quantity > 6000)

\* The reasons for which a person must look at a drafted item.
detectDiscrepancies(d) ==
  Flag("QUANTITY_ADJUSTED", d.claimed # NoClaim /\ toQuantityScaled(d.claimed) # d.quantity)
    \cup Flag("RATE_ABOVE_CEILING", d.ceiling # NoCeiling /\ d.rate > d.ceiling)
    \cup Flag("RATE_DIFFERS_FROM_PROFILE", d.rate # d.listRate)
    \cup Flag("UNUSUALLY_HIGH_HOURS", d.basis = "HOURLY" /\ d.quantity > 6000)

\* draftPaymentFromApprovedWork: an item nobody has to look at is READY at once.
DraftStatus(d) == IF detectDiscrepancies(d) = {} THEN "READY" ELSE "DRAFT"

-----------------------------------------------------------------------------
(***************************************************************************)
(* What must hold.                                                         *)
(***************************************************************************)

\* n / scale is the value of x / (k * scale) rounded half away from zero.
RoundsHalfUp(n, x, k) ==
  LET error == Magnitude(x) - k * Magnitude(n)
  IN /\ -k <= 2 * error /\ 2 * error < k
     /\ n # 0 => (n < 0) = (x < 0)

\* toQuantityScaled reads a text as the nearest hundredth: "Round half-up at the
\* second decimal place rather than truncating", however many digits it has.
ReadsNearest(t) ==
  RoundsHalfUp(toQuantityScaled(t),
               Signed(t.negative, t.whole * 10000 + 1000 * Decimal(t, 1) + 100 * Decimal(t, 2)
                                    + 10 * Decimal(t, 3) + Decimal(t, 4)), 100)

\* computeAmountMinor, minorToPlainDecimal: "the product is exact. Only the final
\* division rounds, half-up", more work or a higher rate never pays less, and the
\* file of an export says the amount that is stored.
AmountSound(quantity, more, rate) ==
  /\ RoundsHalfUp(computeAmountMinor(quantity, rate), quantity * rate, QUANTITY_SCALE)
  /\ quantity <= more =>
       computeAmountMinor(quantity, rate) <= computeAmountMinor(more, rate)
  /\ toQuantityScaled(PlainDecimal(quantity)) = quantity
  /\ toQuantityScaled(PlainDecimal(computeAmountMinor(quantity, rate)))
       = computeAmountMinor(quantity, rate)

\* detectDiscrepancies: what goes to payment without anyone's explanation is what
\* the expert claimed, at the rate of the profile, within the project's ceiling;
\* it "cannot reach an export without someone explaining the difference".
UnexplainedAsClaimed(d) ==
  DraftStatus(d) = "READY" =>
    /\ d.basis = "HOURLY" => d.quantity <= 6000
    /\ computeAmountMinor(d.quantity, d.rate)
         = computeAmountMinor(IF d.claimed = NoClaim THEN d.quantity
                              ELSE toQuantityScaled(d.claimed), d.listRate)
    /\ d.ceiling # NoCeiling => d.listRate <= d.ceiling
=============================================================================
