---------------------------- MODULE VolumeProofs -----------------------------
(***************************************************************************)
(* The volume for every mixer with more than ten steps.                    *)
(***************************************************************************)
EXTENDS Volume, TLAPS

(* What GetVolume rounds.                                                  *)
LEMMA Rounded ==
  ASSUME NEW raw \in minv..maxv
  PROVE  /\ GetVolume(raw) \in Nat
         /\ GetVolume(raw) * Range <= (raw - minv) * 100 + (Range \div 2)
         /\ (raw - minv) * 100 + (Range \div 2) < GetVolume(raw) * Range + Range
         /\ Range \in Nat /\ Range > 10
         /\ 2 * (Range \div 2) <= Range /\ Range <= 2 * (Range \div 2) + 1
<1>1. Range \in Nat /\ Range > 10
  BY RangeAssumption DEF Range
<1>2. 2 * (Range \div 2) <= Range /\ Range <= 2 * (Range \div 2) + 1 /\ Range \div 2 \in Nat
  BY <1>1
<1> DEFINE a == (raw - minv) * 100 + (Range \div 2)
<1>3. a \in Nat
  BY <1>1, <1>2, RangeAssumption
<1> HIDE DEF a
<1>4. ASSUME NEW x \in Nat, NEW r \in Nat, r > 0
      PROVE  x \div r \in Nat /\ (x \div r) * r <= x /\ x < (x \div r) * r + r
  BY <1>4
<1>5. GetVolume(raw) = a \div Range
  BY DEF GetVolume, a
<1>6. a \div Range \in Nat /\ (a \div Range) * Range <= a /\ a < (a \div Range) * Range + Range
  BY <1>1, <1>3, <1>4
<1> QED
  BY <1>1, <1>2, <1>5, <1>6 DEF a

(* Ten per cent of the range more or less.                                 *)
LEMMA TenMore ==
  ASSUME NEW a \in Nat, NEW r \in Nat
  PROVE  (a + 10) * r = a * r + 10 * r /\ (a - 10) * r = a * r - 10 * r
OBVIOUS

(* A percentage of the range.                                              *)
LEMMA Monotone ==
  ASSUME NEW a \in Nat, NEW b \in Nat, NEW r \in Nat, a <= b
  PROVE  a * r <= b * r
OBVIOUS

(* What a division by 100 may return.                                      *)
LEMMA Hundredth ==
  ASSUME NEW n \in Nat
  PROVE  /\ n \div 100 \in Nat
         /\ \A k \in Nat : n >= 100 * k => n \div 100 >= k
         /\ \A k \in Nat : n < 100 * k => n \div 100 < k
OBVIOUS

(* One step up from below 90 is louder and stays in the mixer's range      *)
(* (player.c:467).                                                         *)
THEOREM UpIsLouder ==
  ASSUME NEW raw \in minv..maxv, GetVolume(raw) < 90
  PROVE  UpVolume(raw) \in minv..maxv /\ UpVolume(raw) > raw
<1> DEFINE v == GetVolume(raw)
           x == raw - minv
           p == v * Range
           h == Range \div 2
<1>1. v \in Nat /\ v <= 89 /\ x \in Nat
  BY Rounded, RangeAssumption
<1>2. Range \in Nat /\ Range >= 11 /\ h \in Nat /\ Range <= 2 * h + 1
  BY Rounded
<1>3. p \in Nat /\ x * 100 + h < p + Range
  <2>1. p \in Nat
    BY <1>1, <1>2
  <2>2. x * 100 + h < p + Range
    BY Rounded
  <2> QED
    BY <2>1, <2>2
<1>4. (v + 10) * Range = p + 10 * Range
  BY <1>1, <1>2, TenMore
<1>5. p <= 89 * Range
  BY <1>1, <1>2, Monotone
<1>6. UpVolume(raw) = minv + ((v + 10) * Range) \div 100
  BY <1>1 DEF UpVolume, SetVolume
<1> HIDE DEF v, x, p, h
<1>7. p + 10 * Range >= 100 * (x + 1) /\ p + 10 * Range < 100 * Range
  BY <1>1, <1>2, <1>3, <1>5
<1>8. p + 10 * Range \in Nat
  BY <1>2, <1>3
<1> DEFINE y == (p + 10 * Range) \div 100
<1>9. y \in Nat /\ y >= x + 1 /\ y < Range
  BY <1>1, <1>2, <1>7, <1>8, Hundredth
<1>10. UpVolume(raw) = minv + y
  BY <1>4, <1>6
<1> HIDE DEF y
<1> QED
  BY <1>1, <1>2, <1>9, <1>10, RangeAssumption DEF Range, x

(* One step down from above 10 is softer and stays in the mixer's range    *)
(* (player.c:480).                                                         *)
THEOREM DownIsSofter ==
  ASSUME NEW raw \in minv..maxv, GetVolume(raw) > 10
  PROVE  DownVolume(raw) \in minv..maxv /\ DownVolume(raw) < raw
<1> DEFINE v == GetVolume(raw)
           x == raw - minv
           p == v * Range
           h == Range \div 2
<1>1. v \in Nat /\ v >= 11 /\ x \in Nat
  BY Rounded, RangeAssumption
<1>2. Range \in Nat /\ Range >= 11 /\ h \in Nat /\ 2 * h <= Range
  BY Rounded
<1>3. p \in Nat /\ p <= x * 100 + h
  <2>1. p \in Nat
    BY <1>1, <1>2
  <2>2. p <= x * 100 + h
    BY Rounded
  <2> QED
    BY <2>1, <2>2
<1>4. (v - 10) * Range = p - 10 * Range
  BY <1>1, <1>2, TenMore
<1>5. p >= 11 * Range
  BY <1>1, <1>2, Monotone
<1>6. DownVolume(raw) = minv + ((v - 10) * Range) \div 100
  BY <1>1 DEF DownVolume, SetVolume
<1> HIDE DEF v, x, p, h
<1>7. p - 10 * Range < 100 * x /\ p - 10 * Range \in Nat
  BY <1>1, <1>2, <1>3, <1>5
<1> DEFINE y == (p - 10 * Range) \div 100
<1>8. y \in Nat /\ y < x
  BY <1>1, <1>7, Hundredth
<1>9. DownVolume(raw) = minv + y
  BY <1>4, <1>6
<1> HIDE DEF y
<1> QED
  BY <1>1, <1>8, <1>9, RangeAssumption DEF x
=============================================================================
