------------------------------ MODULE SampleProofs ------------------------------
(***************************************************************************)
(* The mappings of a stream task are judged right and applied right,       *)
(* however many there are and whatever they hold.  The errors say of the   *)
(* mappings parsed so far what ValidConfig says of all, because            *)
(* analog_config_by_register never holds but what a parsed mapping asked   *)
(* for (KnownInv); and the registers of one mapping survive those of the   *)
(* next because no list with a conflict gets that far (AppliedInv).        *)
(***************************************************************************)
EXTENDS StreamSamples, SequenceTheorems, TLAPS

\* get<int>() keeps every number a task is given; the parser looks at no other
\* form of them.
IntsFit == \A n \in Registers \union Negatives \union {GND} : Narrow(n) = n

--------------------------------------------------------------------------------
(* The invariant.                                                             *)

\* The mappings parsed so far.
Parsed == 1..next - 1

\* What a mapping without an error leaves behind.
ResolvedRight(m, r) ==
    /\ r.type = m.type
    /\ r.register = m.register
    /\ Settings(r) = Wanted(m)

ParseInv ==
    /\ arguments \in TaskArguments
    /\ next \in 1..Len(arguments) + 1
    /\ resolved \in Seq(ResolvedMappings)
    /\ errors \subseteq 1..Len(arguments)
    /\ phase \in {"parse", "refused", "range", "negative", "failed", "applied"}
    /\ position \in 1..Len(resolved) + 1

\* Every entry of analog_config_by_register comes from a mapping of that input.
KnownInv ==
    \A r \in DOMAIN known : \E i \in Parsed :
        /\ arguments[i].type = "analog"
        /\ arguments[i].register = r /\ r \in Nat
        /\ known[r] = Wanted(arguments[i])

\* Without an error the mappings so far are all there, valid and in agreement.
CleanInv ==
    errors = {} =>
        /\ Len(resolved) = next - 1
        /\ \A i \in Parsed :
              /\ ValidMapping(arguments[i])
              /\ ResolvedRight(arguments[i], resolved[i])
              /\ arguments[i].type = "analog" =>
                    /\ arguments[i].register \in DOMAIN known
                    /\ known[arguments[i].register] = Wanted(arguments[i])

\* An error is deserved.
ErrorInv == errors # {} => ~ValidConfig

DecisionInv ==
    /\ phase # "parse" => next = Len(arguments) + 1
    /\ phase = "refused" => errors # {} \/ resolved = <<>>
    /\ phase \notin {"parse", "refused"} => errors = {} /\ resolved # <<>>

\* The mappings before position are in the device, and half of the one there.
AppliedInv ==
    /\ DOMAIN settings = {Narrow(n) : n \in Registers}
    /\ \A r \in DOMAIN settings : settings[r] \in AllSettings
    /\ phase \in {"parse", "refused"} => position = 1
    /\ phase \in {"range", "negative", "applied"} =>
          \A i \in 1..Len(resolved) :
              i < position /\ resolved[i].type = "analog" =>
                  settings[resolved[i].register] = Settings(resolved[i])
    /\ phase = "negative" =>
          /\ position <= Len(resolved)
          /\ settings[resolved[position].register].range = resolved[position].range
    /\ phase = "applied" => position > Len(resolved)

ConfigInv == ParseInv /\ KnownInv /\ CleanInv /\ ErrorInv /\ DecisionInv /\ AppliedInv

--------------------------------------------------------------------------------
(* One mapping.                                                               *)

AnyMapping == Analog \union Digital \union Malformed

LEMMA ArgumentsKnown ==
    ASSUME arguments \in TaskArguments
    PROVE  /\ arguments \in Seq(AnyMapping)
           /\ Len(arguments) \in Nat
           /\ \A i \in 1..Len(arguments) : arguments[i] \in AnyMapping
<1>1. PICK n \in 0..MaxMappings : arguments \in [1..n -> AnyMapping]
  BY DEF TaskArguments, AnyMapping
<1>2. n \in Nat
  BY MappingAssumption
<1>3. arguments \in Seq(AnyMapping)
  BY <1>1, <1>2, IsASeq
<1> QED
  BY <1>3

LEMMA NoArguments == <<>> \in TaskArguments
<1>1. <<>> \in [1..0 -> AnyMapping]
  OBVIOUS
<1> QED
  BY <1>1, MappingAssumption DEF TaskArguments, AnyMapping

LEMMA OptionalKnown ==
    ASSUME NEW S, NEW x \in Optional(S)
    PROVE  /\ x[1] \in {"absent", "text", "value"}
           /\ x[1] = "value" => x[2] \in S
BY DEF Optional

\* An analog mapping, with its optional numbers.
LEMMA AnalogKnown ==
    ASSUME IntsFit, NEW m \in Analog
    PROVE  /\ m.defect = "none" /\ m.type = "analog"
           /\ m.register \in Registers /\ m.register \in Int
           /\ Narrow(m.register) = m.register
           /\ ValueOr(m.negative, GND) \in Int
           /\ Narrow(ValueOr(m.negative, GND)) = ValueOr(m.negative, GND)
           /\ ValueOr(m.range, "10") \in AllRanges
<1>1. /\ m.defect = "none" /\ m.type = "analog"
      /\ m.register \in Registers
      /\ m.negative \in Optional(Negatives)
      /\ m.range \in Optional(Ranges)
  BY DEF Analog
<1>2. m.register \in Int /\ Narrow(m.register) = m.register
  BY <1>1, MappingAssumption DEF IntsFit
<1>3. ValueOr(m.negative, GND) \in Negatives \union {GND}
  BY <1>1, OptionalKnown DEF ValueOr
<1>4. ValueOr(m.range, "10") \in AllRanges
  BY <1>1, OptionalKnown DEF ValueOr, AllRanges
<1>5. Negatives \union {GND} \subseteq Int
  BY MappingAssumption DEF GND
<1>6. ValueOr(m.negative, GND) \in Int
  BY <1>3, <1>5
<1>7. Narrow(ValueOr(m.negative, GND)) = ValueOr(m.negative, GND)
  BY <1>3 DEF IntsFit
<1> QED
  BY <1>1, <1>2, <1>4, <1>6, <1>7

LEMMA DigitalKnown ==
    ASSUME IntsFit, NEW m \in Digital
    PROVE  /\ m.defect = "none" /\ m.type = "digital"
           /\ m.register \in Registers /\ m.register \in Int
           /\ Narrow(m.register) = m.register
           /\ ValueOr(m.negative, GND) = GND
           /\ Narrow(GND) = GND
           /\ ValueOr(m.range, "10") = "10"
<1>1. /\ m.defect = "none" /\ m.type = "digital"
      /\ m.register \in Registers
      /\ m.negative = <<"absent">> /\ m.range = <<"absent">>
  BY DEF Digital
<1>2. m.register \in Int /\ Narrow(m.register) = m.register
  BY <1>1, MappingAssumption DEF IntsFit
<1>3. Narrow(GND) = GND
  BY DEF IntsFit
<1>4. ValueOr(m.negative, GND) = GND /\ ValueOr(m.range, "10") = "10"
  <2>1. <<"absent">>[1] # "value"
    OBVIOUS
  <2> QED
    BY <1>1, <2>1 DEF ValueOr
<1> QED
  BY <1>1, <1>2, <1>3, <1>4

\* The parser passes over no mapping that is valid.
LEMMA SkippedInvalid ==
    ASSUME IntsFit, NEW m \in AnyMapping, Skipped(m)
    PROVE  ~ValidMapping(m)
<1>1. CASE m \in Malformed
  BY <1>1 DEF Malformed, ValidMapping
<1>2. CASE m \in Digital
  BY <1>2, DigitalKnown DEF Skipped, ValidMapping, HasAddress
<1>3. CASE m \in Analog
  BY <1>3, AnalogKnown DEF Skipped, ValidMapping, HasAddress
<1> QED
  BY <1>1, <1>2, <1>3 DEF AnyMapping

\* What the parser makes of any other.
LEMMA ResolvedKnown ==
    ASSUME IntsFit, NEW m \in AnyMapping, ~Skipped(m)
    PROVE  /\ m \in Analog \/ m \in Digital
           /\ Resolved(m) \in ResolvedMappings
           /\ ResolvedRight(m, Resolved(m))
           /\ m.register \in {Narrow(n) : n \in Registers}
<1>1. m \notin Malformed
  BY DEF Malformed, Skipped
<1>2. CASE m \in Digital
  <2>1. /\ m.type = "digital" /\ m.register \in Int /\ m.register \in Registers
        /\ Narrow(m.register) = m.register
        /\ Narrow(ValueOr(m.negative, GND)) = GND /\ ValueOr(m.negative, GND) = GND
        /\ ValueOr(m.range, "10") = "10"
    BY <1>2, DigitalKnown
  <2>2. GND \in Int /\ "10" \in AllRanges
    BY DEF GND, AllRanges
  <2>3. m.register \in Nat
    BY <2>1 DEF Skipped
  <2> QED
    BY <1>2, <2>1, <2>2, <2>3 DEF Resolved, ResolvedRight, ResolvedMappings, Settings, Wanted
<1>3. CASE m \in Analog
  <2>1. m.register \in Nat
    BY <1>3, AnalogKnown DEF Skipped
  <2> QED
    BY <1>3, <2>1, AnalogKnown DEF Resolved, ResolvedRight, ResolvedMappings, Settings, Wanted
<1> QED
  BY <1>1, <1>2, <1>3 DEF AnyMapping

LEMMA DigitalValid ==
    ASSUME IntsFit, NEW m \in AnyMapping, ~Skipped(m), m.type = "digital"
    PROVE  ValidMapping(m)
<1>1. m \in Digital
  BY ResolvedKnown, AnalogKnown
<1> QED
  BY <1>1, DigitalKnown DEF Skipped, ValidMapping, HasAddress

\* validateAnalogStreamMapping judges a mapping right.
LEMMA AnalogValid ==
    ASSUME IntsFit, NEW m \in AnyMapping, ~Skipped(m), m.type = "analog"
    PROVE  ValidAnalog(Resolved(m)) <=> ValidMapping(m)
<1>1. m \in Analog
  BY ResolvedKnown, DigitalKnown
<1>2. /\ m.defect = "none" /\ HasAddress("analog", m.register)
      /\ m.negative[1] # "text" /\ m.range[1] # "text"
      /\ m.register \in 0..254
  BY <1>1, AnalogKnown DEF Skipped, HasAddress
<1>3. /\ Resolved(m).register = m.register
      /\ Resolved(m).negative = Wanted(m).negative
      /\ Resolved(m).range = Wanted(m).range
  BY ResolvedKnown DEF ResolvedRight, Settings, Wanted
<1> QED
  BY <1>2, <1>3 DEF ValidAnalog, ValidMapping, PairedInputs

--------------------------------------------------------------------------------
(* The parser keeps the invariant.                                            *)

\* The mapping whose turn it is.
LEMMA NextMapping ==
    ASSUME ParseInv, Parsing
    PROVE  /\ next \in 1..Len(arguments) /\ next + 1 \in 1..Len(arguments) + 1
           /\ arguments[next] \in AnyMapping
           /\ phase = "parse"
BY ArgumentsKnown DEF ParseInv, Parsing

\* One more mapping is parsed; nothing is forgotten.
LEMMA KnownKept ==
    ASSUME ParseInv, KnownInv, next' = next + 1,
           UNCHANGED <<arguments, known>>
    PROVE  KnownInv'
BY DEF KnownInv, Parsed, ParseInv

LEMMA ParseSkipKeeps ==
    ASSUME IntsFit, ConfigInv, ParseSkip
    PROVE  ConfigInv'
<1> DEFINE m == arguments[next]
<1>1. /\ Parsing /\ Skipped(m)
      /\ errors' = errors \union {next} /\ next' = next + 1
      /\ UNCHANGED <<arguments, resolved, known, phase, position, settings>>
  BY DEF ParseSkip
<1>2. ParseInv /\ KnownInv /\ DecisionInv /\ AppliedInv
  BY DEF ConfigInv
<1>3. /\ next \in 1..Len(arguments) /\ next + 1 \in 1..Len(arguments) + 1
      /\ m \in AnyMapping /\ phase = "parse"
  BY <1>1, <1>2, NextMapping
<1>4. ~ValidConfig
  BY <1>1, <1>2, <1>3, SkippedInvalid, ArgumentsKnown DEF ValidConfig, ParseInv
<1>5. ErrorInv' /\ CleanInv'
  <2>1. errors' # {}
    BY <1>1
  <2>2. (~ValidConfig)'
    BY <1>1, <1>4 DEF ValidConfig
  <2> QED
    BY <2>1, <2>2 DEF ErrorInv, CleanInv
<1>6. ParseInv'
  BY <1>1, <1>2, <1>3 DEF ParseInv
<1>7. KnownInv'
  BY <1>1, <1>2, KnownKept
<1>8. DecisionInv' /\ AppliedInv'
  BY <1>1, <1>2, <1>3 DEF DecisionInv, AppliedInv
<1> QED
  BY <1>5, <1>6, <1>7, <1>8 DEF ConfigInv

\* A parsed mapping is appended.
LEMMA ResolvedAppended ==
    ASSUME IntsFit, ParseInv, Parsing, ~Skipped(arguments[next]),
           resolved' = Append(resolved, Resolved(arguments[next]))
    PROVE  /\ resolved' \in Seq(ResolvedMappings)
           /\ Len(resolved) \in Nat /\ Len(resolved') = Len(resolved) + 1
           /\ \A i \in 1..Len(resolved) : resolved'[i] = resolved[i]
           /\ resolved'[Len(resolved) + 1] = Resolved(arguments[next])
<1>1. resolved \in Seq(ResolvedMappings) /\ Resolved(arguments[next]) \in ResolvedMappings
  BY NextMapping, ResolvedKnown DEF ParseInv
<1> QED
  BY <1>1, AppendProperties

LEMMA ParseDigitalKeeps ==
    ASSUME IntsFit, ConfigInv, ParseDigital
    PROVE  ConfigInv'
<1> DEFINE m == arguments[next]
<1>1. /\ Parsing /\ ~Skipped(m) /\ m.type = "digital"
      /\ resolved' = Append(resolved, Resolved(m)) /\ next' = next + 1
      /\ UNCHANGED <<arguments, errors, known, phase, position, settings>>
  BY DEF ParseDigital
<1>2. ParseInv /\ KnownInv /\ CleanInv /\ ErrorInv /\ DecisionInv /\ AppliedInv
  BY DEF ConfigInv
<1>3. /\ next \in 1..Len(arguments) /\ next + 1 \in 1..Len(arguments) + 1
      /\ m \in AnyMapping /\ phase = "parse"
  BY <1>1, <1>2, NextMapping
<1>4. /\ resolved' \in Seq(ResolvedMappings)
      /\ Len(resolved) \in Nat /\ Len(resolved') = Len(resolved) + 1
      /\ \A i \in 1..Len(resolved) : resolved'[i] = resolved[i]
      /\ resolved'[Len(resolved) + 1] = Resolved(m)
  BY <1>1, <1>2, ResolvedAppended
<1>5. ValidMapping(m) /\ ResolvedRight(m, Resolved(m))
  BY <1>1, <1>3, DigitalValid, ResolvedKnown
<1>6. CleanInv'
  <2> SUFFICES ASSUME errors' = {} PROVE CleanInv'
    BY DEF CleanInv
  <2>1. /\ Len(resolved) = next - 1
        /\ \A i \in Parsed :
              /\ ValidMapping(arguments[i])
              /\ ResolvedRight(arguments[i], resolved[i])
              /\ arguments[i].type = "analog" =>
                    /\ arguments[i].register \in DOMAIN known
                    /\ known[arguments[i].register] = Wanted(arguments[i])
    BY <1>1, <1>2 DEF CleanInv
  <2>2. Len(resolved') = next' - 1
    BY <1>1, <1>3, <1>4, <2>1
  <2>3. ASSUME NEW i \in Parsed'
        PROVE  /\ ValidMapping(arguments[i])
               /\ ResolvedRight(arguments[i], resolved'[i])
               /\ arguments[i].type = "analog" =>
                     /\ arguments[i].register \in DOMAIN known
                     /\ known[arguments[i].register] = Wanted(arguments[i])
    <3>1. i \in Parsed \/ i = next
      BY <1>1, <1>3 DEF Parsed
    <3>2. CASE i \in Parsed
      <4>1. resolved'[i] = resolved[i]
        BY <1>3, <1>4, <2>1, <3>2 DEF Parsed
      <4> QED
        BY <2>1, <3>2, <4>1
    <3>3. CASE i = next
      BY <1>1, <1>3, <1>4, <1>5, <2>1, <3>3
    <3> QED
      BY <3>1, <3>2, <3>3
  <2> QED
    BY <1>1, <2>2, <2>3 DEF CleanInv, ValidMapping, ResolvedRight
<1>7. ErrorInv'
  BY <1>1, <1>2 DEF ErrorInv, ValidConfig
<1>8. ParseInv'
  BY <1>1, <1>2, <1>3, <1>4 DEF ParseInv
<1>9. KnownInv'
  BY <1>1, <1>2, KnownKept
<1>10. DecisionInv' /\ AppliedInv'
  BY <1>1, <1>2, <1>3 DEF DecisionInv, AppliedInv
<1> QED
  BY <1>6, <1>7, <1>8, <1>9, <1>10 DEF ConfigInv

\* The first mapping of an input decides what is remembered of it.
LEMMA RememberKnown ==
    ASSUME NEW r
    PROVE  /\ DOMAIN Remember(r) = DOMAIN known \union {r.register}
           /\ \A i \in DOMAIN known : Remember(r)[i] = known[i]
           /\ r.register \notin DOMAIN known => Remember(r)[r.register] = Settings(r)
BY DEF Remember

\* Two mappings of one input that disagree.
LEMMA ConflictInvalid ==
    ASSUME IntsFit, ParseInv, KnownInv, Parsing, ~Skipped(arguments[next]),
           arguments[next].type = "analog", Conflict(Resolved(arguments[next]))
    PROVE  ~ValidConfig
<1> DEFINE m == arguments[next]
<1>1. next \in 1..Len(arguments) /\ m \in AnyMapping
  BY NextMapping
<1>2. Resolved(m).register = m.register /\ Settings(Resolved(m)) = Wanted(m)
  BY <1>1, ResolvedKnown DEF ResolvedRight
<1>3. m.register \in DOMAIN known /\ known[m.register] # Wanted(m)
  BY <1>2 DEF Conflict
<1>4. PICK i \in Parsed : /\ arguments[i].type = "analog"
                          /\ arguments[i].register = m.register
                          /\ known[m.register] = Wanted(arguments[i])
  BY <1>3 DEF KnownInv
<1>5. i \in DOMAIN arguments /\ next \in DOMAIN arguments
  BY <1>1, ArgumentsKnown DEF Parsed, ParseInv
<1> QED
  BY <1>3, <1>4, <1>5 DEF ValidConfig

LEMMA ParseAnalogKeeps ==
    ASSUME IntsFit, ConfigInv, ParseAnalog
    PROVE  ConfigInv'
<1> DEFINE m == arguments[next]
           r == Resolved(m)
<1>1. /\ Parsing /\ ~Skipped(m) /\ m.type = "analog"
      /\ resolved' = Append(resolved, r) /\ next' = next + 1
      /\ errors' = IF ValidAnalog(r) /\ ~Conflict(r) THEN errors ELSE errors \union {next}
      /\ known' = Remember(r)
      /\ UNCHANGED <<arguments, phase, position, settings>>
  BY DEF ParseAnalog
<1>2. ParseInv /\ KnownInv /\ CleanInv /\ ErrorInv /\ DecisionInv /\ AppliedInv
  BY DEF ConfigInv
<1>3. /\ next \in 1..Len(arguments) /\ next + 1 \in 1..Len(arguments) + 1
      /\ m \in AnyMapping /\ phase = "parse"
  BY <1>1, <1>2, NextMapping
<1>4. /\ resolved' \in Seq(ResolvedMappings)
      /\ Len(resolved) \in Nat /\ Len(resolved') = Len(resolved) + 1
      /\ \A i \in 1..Len(resolved) : resolved'[i] = resolved[i]
      /\ resolved'[Len(resolved) + 1] = r
  BY <1>1, <1>2, ResolvedAppended
<1>5. /\ ResolvedRight(m, r) /\ r.register = m.register /\ Settings(r) = Wanted(m)
      /\ ValidAnalog(r) <=> ValidMapping(m)
  BY <1>1, <1>3, AnalogValid, ResolvedKnown DEF ResolvedRight
<1>6. /\ DOMAIN known' = DOMAIN known \union {m.register}
      /\ \A i \in DOMAIN known : known'[i] = known[i]
      /\ m.register \notin DOMAIN known => known'[m.register] = Wanted(m)
  BY <1>1, <1>5, RememberKnown
<1>7. next \in Parsed' /\ Parsed' = Parsed \union {next}
  BY <1>1, <1>3 DEF Parsed
<1>8. KnownInv'
  <2> SUFFICES ASSUME NEW c \in DOMAIN known'
               PROVE  \E i \in Parsed' : /\ arguments[i].type = "analog"
                                         /\ arguments[i].register = c /\ c \in Nat
                                         /\ known'[c] = Wanted(arguments[i])
    BY <1>1 DEF KnownInv, Wanted
  <2>1. CASE c \in DOMAIN known
    BY <1>2, <1>6, <1>7, <2>1 DEF KnownInv
  <2>2. CASE c \notin DOMAIN known
    <3>1. m.register \in Nat
      BY <1>1, <1>3, <1>5, ResolvedKnown DEF ResolvedMappings
    <3> QED
      BY <1>1, <1>6, <1>7, <2>2, <3>1
  <2> QED
    BY <2>1, <2>2
<1>9. CleanInv'
  <2> SUFFICES ASSUME errors' = {} PROVE CleanInv'
    BY DEF CleanInv
  <2>1. errors = {} /\ ValidAnalog(r) /\ ~Conflict(r)
    BY <1>1
  <2>2. /\ Len(resolved) = next - 1
        /\ \A i \in Parsed :
              /\ ValidMapping(arguments[i])
              /\ ResolvedRight(arguments[i], resolved[i])
              /\ arguments[i].type = "analog" =>
                    /\ arguments[i].register \in DOMAIN known
                    /\ known[arguments[i].register] = Wanted(arguments[i])
    BY <1>2, <2>1 DEF CleanInv
  <2>3. Len(resolved') = next' - 1
    BY <1>1, <1>3, <1>4, <2>2
  <2>4. m.register \in DOMAIN known' /\ known'[m.register] = Wanted(m)
    BY <1>5, <1>6, <2>1 DEF Conflict
  <2>5. ASSUME NEW i \in Parsed'
        PROVE  /\ ValidMapping(arguments[i])
               /\ ResolvedRight(arguments[i], resolved'[i])
               /\ arguments[i].type = "analog" =>
                     /\ arguments[i].register \in DOMAIN known'
                     /\ known'[arguments[i].register] = Wanted(arguments[i])
    <3>1. CASE i \in Parsed
      <4>1. resolved'[i] = resolved[i]
        BY <1>3, <1>4, <2>2, <3>1 DEF Parsed
      <4> QED
        BY <1>6, <2>2, <3>1, <4>1
    <3>2. CASE i = next
      <4>1. resolved'[i] = r
        BY <1>3, <1>4, <2>2, <3>2
      <4> QED
        BY <1>5, <2>1, <2>4, <3>2, <4>1
    <3> QED
      BY <1>7, <3>1, <3>2
  <2> QED
    BY <1>1, <2>3, <2>5 DEF CleanInv, ValidMapping, ResolvedRight, Wanted
<1>10. ErrorInv'
  <2> SUFFICES ASSUME errors' # {} PROVE ~ValidConfig
    BY <1>1 DEF ErrorInv, ValidConfig
  <2>1. CASE errors # {}
    BY <1>2, <2>1 DEF ErrorInv
  <2>2. CASE ~ValidAnalog(r)
    BY <1>2, <1>3, <1>5, <2>2, ArgumentsKnown DEF ValidConfig, ParseInv
  <2>3. CASE Conflict(r)
    BY <1>1, <1>2, <2>3, ConflictInvalid
  <2> QED
    BY <1>1, <2>1, <2>2, <2>3
<1>11. ParseInv'
  <2>1. errors' \subseteq Int
    BY <1>1, <1>2, <1>3 DEF ParseInv
  <2> QED
    BY <1>1, <1>2, <1>3, <1>4, <2>1 DEF ParseInv
<1>12. DecisionInv' /\ AppliedInv'
  BY <1>1, <1>2, <1>3 DEF DecisionInv, AppliedInv
<1> QED
  BY <1>8, <1>9, <1>10, <1>11, <1>12 DEF ConfigInv

\* What the parser left is not touched any more.
LEMMA ParsedKept ==
    ASSUME ConfigInv, UNCHANGED <<arguments, parsed>>
    PROVE  /\ KnownInv' /\ CleanInv' /\ ErrorInv'
           /\ /\ phase' \in {"parse", "refused", "range", "negative", "failed", "applied"}
              /\ position' \in 1..Len(resolved) + 1
              => ParseInv'
<1>1. UNCHANGED <<arguments, next, resolved, errors, known>>
  BY DEF parsed
<1>2. KnownInv' /\ ErrorInv'
  BY <1>1 DEF ConfigInv, KnownInv, ErrorInv, Parsed, ValidMapping, ValidConfig, Wanted
<1>3. CleanInv'
  <2>1. errors = {} =>
           /\ Len(resolved) = next - 1
           /\ \A i \in 1..next - 1 :
                 /\ ValidMapping(arguments[i])
                 /\ ResolvedRight(arguments[i], resolved[i])
                 /\ arguments[i].type = "analog" =>
                       /\ arguments[i].register \in DOMAIN known
                       /\ known[arguments[i].register] = Wanted(arguments[i])
    BY DEF ConfigInv, CleanInv, Parsed
  <2> QED
    BY <1>1, <2>1 DEF CleanInv, Parsed
<1>4. /\ /\ phase' \in {"parse", "refused", "range", "negative", "failed", "applied"}
         /\ position' \in 1..Len(resolved) + 1
         => ParseInv'
  BY <1>1 DEF ConfigInv, ParseInv
<1> QED
  BY <1>2, <1>3, <1>4

LEMMA DecideKeeps ==
    ASSUME ConfigInv, Decide
    PROVE  ConfigInv'
<1>1. /\ phase = "parse" /\ next > Len(arguments)
      /\ phase' = IF errors # {} \/ resolved = <<>> THEN "refused" ELSE "range"
      /\ UNCHANGED <<arguments, parsed, position, settings>>
  BY DEF Decide
<1>2. /\ ParseInv /\ DecisionInv /\ AppliedInv
      /\ UNCHANGED <<next, resolved, errors, known>>
  BY <1>1 DEF ConfigInv, parsed
<1>3. position = 1
  BY <1>1, <1>2 DEF AppliedInv
<1>4. AppliedInv'
  <2>1. \A i \in 1..Len(resolved) : ~(i < 1)
    OBVIOUS
  <2> QED
    BY <1>1, <1>2, <1>3, <2>1 DEF AppliedInv, Settings
<1>5. next = Len(arguments) + 1
  BY <1>1, <1>2, ArgumentsKnown DEF ParseInv
<1>6. DecisionInv'
  BY <1>1, <1>2, <1>5 DEF DecisionInv
<1>7. ParseInv' /\ KnownInv' /\ CleanInv' /\ ErrorInv'
  BY <1>1, <1>2, <1>3, ParsedKept
<1> QED
  BY <1>4, <1>6, <1>7 DEF ConfigInv

--------------------------------------------------------------------------------
(* Writing the registers keeps it.                                            *)

\* The mapping whose registers are written asks for nothing else than those before
\* it that have its input.
LEMMA CurrentAgrees ==
    ASSUME ConfigInv, phase \in {"range", "negative"}, position <= Len(resolved),
           NEW i \in 1..Len(resolved), i < position,
           resolved[i].type = "analog", Current.type = "analog",
           resolved[i].register = Current.register
    PROVE  Settings(resolved[i]) = Settings(Current)
<1>1. /\ errors = {} /\ next = Len(arguments) + 1
      /\ position \in Nat \ {0}
      /\ Len(arguments) \in Nat
  BY ArgumentsKnown DEF ConfigInv, DecisionInv, ParseInv
<1>2. Len(resolved) = Len(arguments)
  BY <1>1 DEF ConfigInv, CleanInv
<1>3. i \in Parsed /\ position \in Parsed
  BY <1>1, <1>2 DEF Parsed
<1>4. /\ arguments[i].type = "analog" /\ arguments[position].type = "analog"
      /\ arguments[i].register = arguments[position].register
      /\ Settings(resolved[i]) = Wanted(arguments[i])
      /\ Settings(Current) = Wanted(arguments[position])
  BY <1>1, <1>3 DEF ConfigInv, CleanInv, ResolvedRight, Current
<1> QED
  BY <1>1, <1>3, <1>4 DEF ConfigInv, CleanInv

\* The input of a mapping that is written is one of the device's.
LEMMA RegisterKnown ==
    ASSUME IntsFit, ConfigInv, phase \in {"range", "negative"},
           NEW i \in 1..Len(resolved), resolved[i].type = "analog"
    PROVE  resolved[i].register \in DOMAIN settings
<1>1. /\ errors = {} /\ next = Len(arguments) + 1 /\ Len(arguments) \in Nat
  BY ArgumentsKnown DEF ConfigInv, DecisionInv, ParseInv
<1>2. Len(resolved) = Len(arguments)
  BY <1>1 DEF ConfigInv, CleanInv
<1>3. i \in Parsed
  BY <1>1, <1>2 DEF Parsed
<1>4. /\ resolved[i].register = arguments[i].register
      /\ ValidMapping(arguments[i])
  BY <1>1, <1>3 DEF ConfigInv, CleanInv, ResolvedRight
<1>5. arguments[i] \in AnyMapping
  BY <1>2, ArgumentsKnown DEF ConfigInv, ParseInv
<1>6. arguments[i].register \in {Narrow(n) : n \in Registers}
  BY <1>4, <1>5, SkippedInvalid, ResolvedKnown
<1> QED
  BY <1>4, <1>6 DEF ConfigInv, AppliedInv

\* The mapping there, and its input.
LEMMA CurrentKnown ==
    ASSUME IntsFit, ConfigInv, phase \in {"range", "negative"}, position <= Len(resolved),
           Current.type = "analog"
    PROVE  /\ position \in 1..Len(resolved)
           /\ Current \in ResolvedMappings
           /\ Current.register \in DOMAIN settings
           /\ settings[Current.register] \in AllSettings
<1>1. position \in Nat \ {0} /\ resolved \in Seq(ResolvedMappings)
  BY DEF ConfigInv, ParseInv
<1>2. position \in 1..Len(resolved)
  BY <1>1
<1>3. Current \in ResolvedMappings
  BY <1>1, <1>2, ElementOfSeq DEF Current
<1>4. Current.register \in DOMAIN settings
  BY <1>2, RegisterKnown DEF Current
<1> QED
  BY <1>2, <1>3, <1>4 DEF ConfigInv, AppliedInv

LEMMA SkipDigitalKeeps ==
    ASSUME ConfigInv, SkipDigital
    PROVE  ConfigInv'
<1>1. /\ phase = "range" /\ position <= Len(resolved) /\ Current.type = "digital"
      /\ position' = position + 1
      /\ UNCHANGED <<arguments, parsed, phase, settings>>
  BY DEF SkipDigital, Applying
<1>2. /\ ParseInv /\ DecisionInv /\ AppliedInv
      /\ UNCHANGED <<next, resolved, errors, known>>
      /\ position \in Nat \ {0}
  BY <1>1 DEF ConfigInv, parsed, ParseInv
<1>3. ASSUME NEW i \in 1..Len(resolved), i < position + 1, resolved[i].type = "analog"
      PROVE  settings[resolved[i].register] = Settings(resolved[i])
  <2>1. i # position
    BY <1>1, <1>3 DEF Current
  <2>2. i < position
    BY <1>2, <1>3, <2>1
  <2> QED
    BY <1>1, <1>2, <1>3, <2>2 DEF AppliedInv
<1>4. AppliedInv'
  BY <1>1, <1>2, <1>3 DEF AppliedInv, Settings
<1>5. DecisionInv'
  BY <1>1, <1>2 DEF DecisionInv
<1>6. ParseInv' /\ KnownInv' /\ CleanInv' /\ ErrorInv'
  BY <1>1, <1>2, ParsedKept
<1> QED
  BY <1>4, <1>5, <1>6 DEF ConfigInv

\* One of the two registers of an input is written.
LEMMA OneWritten ==
    ASSUME NEW S, NEW f, NEW c \in DOMAIN f, f[c] \in [negative: Int, range: S],
           NEW n \in Int, NEW v \in S
    PROVE  /\ LET g == [f EXCEPT ![c].range = v]
              IN  /\ DOMAIN g = DOMAIN f
                  /\ \A r \in DOMAIN f \ {c} : g[r] = f[r]
                  /\ g[c] = [negative |-> f[c].negative, range |-> v]
           /\ LET g == [f EXCEPT ![c].negative = n]
              IN  /\ DOMAIN g = DOMAIN f
                  /\ \A r \in DOMAIN f \ {c} : g[r] = f[r]
                  /\ g[c] = [negative |-> n, range |-> f[c].range]
<1>1. /\ [f[c] EXCEPT !.range = v] = [negative |-> f[c].negative, range |-> v]
      /\ [f[c] EXCEPT !.negative = n] = [negative |-> n, range |-> f[c].range]
  OBVIOUS
<1>2. LET g == [f EXCEPT ![c].range = v]
      IN  /\ DOMAIN g = DOMAIN f
          /\ \A r \in DOMAIN f \ {c} : g[r] = f[r]
          /\ g[c] = [f[c] EXCEPT !.range = v]
  OBVIOUS
<1>3. LET g == [f EXCEPT ![c].negative = n]
      IN  /\ DOMAIN g = DOMAIN f
          /\ \A r \in DOMAIN f \ {c} : g[r] = f[r]
          /\ g[c] = [f[c] EXCEPT !.negative = n]
  OBVIOUS
<1> QED
  BY <1>1, <1>2, <1>3

LEMMA WriteRangeKeeps ==
    ASSUME IntsFit, ConfigInv, WriteRange
    PROVE  ConfigInv'
<1> DEFINE c == Current.register
<1>1. /\ phase = "range" /\ position <= Len(resolved) /\ Current.type = "analog"
      /\ settings' = [settings EXCEPT ![c].range = Current.range]
      /\ phase' = "negative"
      /\ UNCHANGED <<arguments, parsed, position>>
  BY DEF WriteRange, Applying
<1>2. /\ ParseInv /\ DecisionInv /\ AppliedInv
      /\ UNCHANGED <<next, resolved, errors, known>>
      /\ position \in Nat \ {0}
  BY <1>1 DEF ConfigInv, parsed, ParseInv
<1>3. /\ Current \in ResolvedMappings
      /\ c \in DOMAIN settings /\ settings[c] \in AllSettings
  BY <1>1, CurrentKnown
<1>4. Current.range \in AllRanges
  BY <1>3 DEF ResolvedMappings
<1>5. /\ DOMAIN settings' = DOMAIN settings
      /\ \A r \in DOMAIN settings \ {c} : settings'[r] = settings[r]
      /\ settings'[c] = [negative |-> settings[c].negative, range |-> Current.range]
  <2> HIDE DEF c
  <2> QED
    BY <1>1, <1>3, <1>4, OneWritten DEF AllSettings
<1>6. settings'[c] \in AllSettings
  BY <1>3, <1>4, <1>5 DEF AllSettings
<1>7. ASSUME NEW i \in 1..Len(resolved), i < position, resolved[i].type = "analog"
      PROVE  settings'[resolved[i].register] = Settings(resolved[i])
  <2>1. settings[resolved[i].register] = Settings(resolved[i])
    BY <1>1, <1>2, <1>7 DEF AppliedInv
  <2>2. CASE resolved[i].register = c
    <3>1. settings[c] = Settings(Current) /\ Settings(resolved[i]) = Settings(Current)
      BY <1>1, <1>7, <2>1, <2>2, CurrentAgrees
    <3>2. settings'[c] = Settings(Current)
      BY <1>5, <3>1 DEF Settings
    <3> QED
      BY <2>2, <3>1, <3>2
  <2>3. CASE resolved[i].register # c
    <3>1. resolved[i].register \in DOMAIN settings
      BY <1>7, <1>1, RegisterKnown
    <3> QED
      BY <1>5, <2>1, <2>3, <3>1
  <2> QED
    BY <2>2, <2>3
<1>8. settings'[c].range = Current.range
  BY <1>5
<1>9. AppliedInv'
  BY <1>1, <1>2, <1>5, <1>6, <1>7, <1>8 DEF AppliedInv, Settings, Current, AllSettings
<1>10. DecisionInv'
  BY <1>1, <1>2 DEF DecisionInv
<1>11. ParseInv' /\ KnownInv' /\ CleanInv' /\ ErrorInv'
  BY <1>1, <1>2, ParsedKept
<1> QED
  BY <1>9, <1>10, <1>11 DEF ConfigInv

LEMMA WriteNegativeChannelKeeps ==
    ASSUME IntsFit, ConfigInv, WriteNegativeChannel
    PROVE  ConfigInv'
<1> DEFINE c == Current.register
<1>1. /\ phase = "negative" /\ position <= Len(resolved) /\ Current.type = "analog"
      /\ settings' = [settings EXCEPT ![c].negative = Current.negative]
      /\ phase' = "range"
      /\ position' = position + 1
      /\ UNCHANGED <<arguments, parsed>>
  BY DEF WriteNegativeChannel, Applying
<1>2. /\ ParseInv /\ DecisionInv /\ AppliedInv
      /\ UNCHANGED <<next, resolved, errors, known>>
      /\ position \in Nat \ {0}
  BY <1>1 DEF ConfigInv, parsed, ParseInv
<1>3. /\ Current \in ResolvedMappings
      /\ c \in DOMAIN settings /\ settings[c] \in AllSettings
  BY <1>1, CurrentKnown
<1>4. Current.negative \in Int
  BY <1>3 DEF ResolvedMappings
<1>5. /\ DOMAIN settings' = DOMAIN settings
      /\ \A r \in DOMAIN settings \ {c} : settings'[r] = settings[r]
      /\ settings'[c] = [negative |-> Current.negative, range |-> settings[c].range]
  <2> HIDE DEF c
  <2> QED
    BY <1>1, <1>3, <1>4, OneWritten DEF AllSettings
<1>6. settings'[c] \in AllSettings
  BY <1>3, <1>4, <1>5 DEF AllSettings
\* The range was written before.
<1>7. settings'[c] = Settings(Current)
  <2>1. settings[c].range = Current.range
    BY <1>1, <1>2 DEF AppliedInv, Current
  <2> QED
    BY <1>5, <2>1 DEF Settings
<1>8. ASSUME NEW i \in 1..Len(resolved), i < position + 1, resolved[i].type = "analog"
      PROVE  settings'[resolved[i].register] = Settings(resolved[i])
  <2>1. CASE i = position
    BY <1>7, <2>1 DEF Current
  <2>2. CASE i < position
    <3>1. settings[resolved[i].register] = Settings(resolved[i])
      BY <1>1, <1>2, <1>8, <2>2 DEF AppliedInv
    <3>2. CASE resolved[i].register = c
      <4>1. Settings(resolved[i]) = Settings(Current)
        BY <1>1, <1>8, <2>2, <3>2, CurrentAgrees
      <4> QED
        BY <1>7, <3>2, <4>1
    <3>3. CASE resolved[i].register # c
      <4>1. resolved[i].register \in DOMAIN settings
        BY <1>8, <1>1, RegisterKnown
      <4> QED
        BY <1>5, <3>1, <3>3, <4>1
    <3> QED
      BY <3>2, <3>3
  <2> QED
    BY <1>2, <1>8, <2>1, <2>2
<1>9. AppliedInv'
  BY <1>1, <1>2, <1>5, <1>6, <1>8 DEF AppliedInv, Settings, AllSettings
<1>10. DecisionInv'
  BY <1>1, <1>2 DEF DecisionInv
<1>11. ParseInv' /\ KnownInv' /\ CleanInv' /\ ErrorInv'
  BY <1>1, <1>2, ParsedKept
<1> QED
  BY <1>9, <1>10, <1>11 DEF ConfigInv

LEMMA WriteFailsKeeps ==
    ASSUME ConfigInv, WriteFails
    PROVE  ConfigInv'
<1>1. /\ phase \in {"range", "negative"} /\ phase' = "failed"
      /\ UNCHANGED <<arguments, parsed, position, settings>>
  BY DEF WriteFails, Applying
<1>2. /\ ParseInv /\ DecisionInv /\ AppliedInv
      /\ UNCHANGED <<next, resolved, errors, known>>
  BY <1>1 DEF ConfigInv, parsed
<1>3. DecisionInv' /\ AppliedInv'
  BY <1>1, <1>2 DEF DecisionInv, AppliedInv
<1>4. ParseInv' /\ KnownInv' /\ CleanInv' /\ ErrorInv'
  BY <1>1, <1>2, ParsedKept DEF ParseInv
<1> QED
  BY <1>3, <1>4 DEF ConfigInv

LEMMA AppliedKeeps ==
    ASSUME ConfigInv, Applied
    PROVE  ConfigInv'
<1>1. /\ phase = "range" /\ position > Len(resolved) /\ phase' = "applied"
      /\ UNCHANGED <<arguments, parsed, position, settings>>
  BY DEF Applied
<1>2. /\ ParseInv /\ DecisionInv /\ AppliedInv
      /\ UNCHANGED <<next, resolved, errors, known>>
  BY <1>1 DEF ConfigInv, parsed
<1>3. DecisionInv' /\ AppliedInv'
  BY <1>1, <1>2 DEF DecisionInv, AppliedInv, Settings
<1>4. ParseInv' /\ KnownInv' /\ CleanInv' /\ ErrorInv'
  BY <1>1, <1>2, ParsedKept DEF ParseInv
<1> QED
  BY <1>3, <1>4 DEF ConfigInv

--------------------------------------------------------------------------------
(* What the mappings come to.                                                 *)

LEMMA ConfigInit ==
    ASSUME IntsFit, MappingInit
    PROVE  ConfigInv
<1> USE DEF MappingInit
<1>1. ParseInv
  <2>1. 1 \in 1..Len(arguments) + 1
    BY ArgumentsKnown
  <2>2. <<>> \in Seq(ResolvedMappings)
    OBVIOUS
  <2> QED
    BY <2>1, <2>2 DEF ParseInv
<1>2. KnownInv /\ ErrorInv /\ DecisionInv
  BY DEF KnownInv, ErrorInv, DecisionInv
<1>3. CleanInv
  <2>1. Parsed = {} /\ Len(resolved) = next - 1
    BY DEF Parsed
  <2> QED
    BY <2>1 DEF CleanInv
<1>4. AppliedInv
  <2>1. [negative |-> GND, range |-> "10"] \in AllSettings
    BY DEF AllSettings, AllRanges, GND
  <2> QED
    BY <2>1 DEF AppliedInv
<1> QED
  BY <1>1, <1>2, <1>3, <1>4 DEF ConfigInv

\* A mapping list that is done with leaves nothing behind.
LEMMA AcceptKeeps ==
    ASSUME IntsFit, ConfigInv, Accept
    PROVE  ConfigInv'
<1>1. /\ arguments' = <<>> /\ resolved' = <<>> /\ known' = [i \in {} |-> 0]
      /\ next' = 1 /\ errors' = {} /\ phase' = "parse" /\ position' = 1
      /\ settings' = [i \in DOMAIN settings |-> [negative |-> GND, range |-> "10"]]
  BY DEF Accept
<1>2. ParseInv'
  <2>1. <<>> \in Seq(ResolvedMappings) /\ 1 \in 1..Len(<<>>) + 1
    OBVIOUS
  <2> QED
    BY <1>1, <2>1, NoArguments DEF ParseInv
<1>3. KnownInv' /\ ErrorInv' /\ DecisionInv'
  BY <1>1 DEF KnownInv, ErrorInv, DecisionInv
<1>4. CleanInv'
  <2>1. Parsed' = {} /\ Len(resolved') = next' - 1
    BY <1>1 DEF Parsed
  <2> QED
    BY <1>1, <2>1 DEF CleanInv
<1>5. AppliedInv'
  <2>1. [negative |-> GND, range |-> "10"] \in AllSettings
    BY DEF AllSettings, AllRanges, GND
  <2>2. DOMAIN settings = {Narrow(n) : n \in Registers}
    BY DEF ConfigInv, AppliedInv
  <2> QED
    BY <1>1, <2>1, <2>2 DEF AppliedInv
<1> QED
  BY <1>2, <1>3, <1>4, <1>5 DEF ConfigInv

\* Nothing else touches the mappings.
LEMMA MappingsKept ==
    ASSUME ConfigInv, UNCHANGED mappingVars
    PROVE  ConfigInv'
<1>1. UNCHANGED <<arguments, parsed, phase, position, settings>>
  BY DEF mappingVars
<1>2. ParseInv' /\ KnownInv' /\ CleanInv' /\ ErrorInv'
  BY <1>1, ParsedKept DEF ConfigInv, ParseInv
<1>3. DecisionInv' /\ AppliedInv'
  BY <1>1 DEF ConfigInv, DecisionInv, AppliedInv, parsed, Settings
<1> QED
  BY <1>2, <1>3 DEF ConfigInv

LEMMA ConfigStep ==
    ASSUME IntsFit, ConfigInv, [Next]_vars
    PROVE  ConfigInv'
<1>1. CASE UNCHANGED vars
  BY <1>1, MappingsKept DEF vars
<1>2. CASE Accept
  BY <1>2, AcceptKeeps
<1>3. CASE SampleSteps /\ UNCHANGED mappingVars
  BY <1>3, MappingsKept
<1>4. CASE Configure
  <2>1. MappingNext
    BY <1>4 DEF Configure
  <2> QED
    BY <2>1, ParseSkipKeeps, ParseDigitalKeeps, ParseAnalogKeeps, DecideKeeps,
       SkipDigitalKeeps, WriteRangeKeeps, WriteNegativeChannelKeeps,
       WriteFailsKeeps, AppliedKeeps DEF MappingNext
<1> QED
  BY <1>1, <1>2, <1>3, <1>4 DEF Next

LEMMA ConfigAlways ==
    ASSUME IntsFit
    PROVE  Spec => []ConfigInv
<1>1. Init => ConfigInv
  BY ConfigInit DEF Init
<1>2. ConfigInv /\ [Next]_vars => ConfigInv'
  BY ConfigStep
<1> QED
  BY <1>1, <1>2, PTL DEF Spec

\* Once the parser is through, no error means that the whole list is valid.
LEMMA ConfigImpliesRefused == ConfigInv => RefusedIffInvalid
<1> SUFFICES ASSUME ConfigInv, phase # "parse"
             PROVE  phase = "refused" <=> ~ValidConfig
  BY DEF RefusedIffInvalid
<1>1. /\ next = Len(arguments) + 1 /\ Len(arguments) \in Nat
      /\ arguments \in Seq(AnyMapping)
  BY ArgumentsKnown DEF ConfigInv, DecisionInv, ParseInv
<1>2. CASE phase = "refused"
  <2>1. CASE errors # {}
    BY <1>2, <2>1 DEF ConfigInv, ErrorInv
  <2>2. CASE errors = {}
    <3>1. resolved = <<>> /\ Len(resolved) = Len(arguments)
      BY <1>1, <1>2, <2>2 DEF ConfigInv, DecisionInv, CleanInv
    <3>2. Len(arguments) = 0
      BY <3>1
    <3>3. arguments = <<>>
      BY <1>1, <3>2, EmptySeq
    <3> QED
      BY <1>2, <3>3 DEF ValidConfig
  <2> QED
    BY <2>1, <2>2
<1>3. CASE phase # "refused"
  <2>1. errors = {} /\ resolved # <<>>
    BY <1>3 DEF ConfigInv, DecisionInv
  <2>2. Len(resolved) = Len(arguments) /\ resolved \in Seq(ResolvedMappings)
    BY <1>1, <2>1 DEF ConfigInv, CleanInv, ParseInv
  <2>3. arguments # <<>>
    <3>1. Len(resolved) # 0
      BY <2>1, <2>2, EmptySeq
    <3> QED
      BY <2>2, <3>1
  <2>4. DOMAIN arguments = Parsed
    BY <1>1 DEF Parsed
  <2>5. \A i \in Parsed :
           /\ ValidMapping(arguments[i])
           /\ arguments[i].type = "analog" =>
                 known[arguments[i].register] = Wanted(arguments[i])
    BY <2>1 DEF ConfigInv, CleanInv
  <2>6. ValidConfig
    BY <2>3, <2>4, <2>5 DEF ValidConfig
  <2> QED
    BY <1>3, <2>6
<1> QED
  BY <1>2, <1>3

LEMMA ConfigImpliesApplied == ConfigInv => EveryMappingApplied
<1> SUFFICES ASSUME ConfigInv, phase = "applied",
                    NEW i \in DOMAIN arguments, arguments[i].type = "analog"
             PROVE  settings[arguments[i].register] = Wanted(arguments[i])
  BY DEF EveryMappingApplied
<1>1. /\ next = Len(arguments) + 1 /\ Len(arguments) \in Nat
      /\ arguments \in Seq(AnyMapping) /\ errors = {}
  BY ArgumentsKnown DEF ConfigInv, DecisionInv, ParseInv
<1>2. Len(resolved) = Len(arguments) /\ i \in Parsed /\ i \in 1..Len(resolved)
  BY <1>1 DEF ConfigInv, CleanInv, Parsed
<1>3. ResolvedRight(arguments[i], resolved[i])
  BY <1>1, <1>2 DEF ConfigInv, CleanInv
<1>4. i < position
  BY <1>2 DEF ConfigInv, AppliedInv, ParseInv
<1>5. settings[resolved[i].register] = Settings(resolved[i])
  BY <1>2, <1>3, <1>4 DEF ConfigInv, AppliedInv, ResolvedRight
<1> QED
  BY <1>3, <1>5 DEF ResolvedRight

\* parseStreamMappings and the worker's verdict on its errors: whatever list of
\* mappings a stream is given, of any length and in any order, it is refused
\* exactly when a mapping in it is invalid or two of them disagree.  Numbers that
\* get<int>() cuts are the exception.
THEOREM ConfigJudged ==
    ASSUME IntsFit
    PROVE  Spec => []RefusedIffInvalid
BY ConfigAlways, ConfigImpliesRefused, PTL

\* applyAnalogStreamConfigLocked: a stream that is started finds RANGE and
\* NEGATIVE_CH of every analog mapping as the mapping has them, however many
\* mappings have the same input.
THEOREM ConfigApplied ==
    ASSUME IntsFit
    PROVE  Spec => []EveryMappingApplied
BY ConfigAlways, ConfigImpliesApplied, PTL

--------------------------------------------------------------------------------
(***************************************************************************)
(* The samples.  The scan number of a timestamp is the one the device      *)
(* counts (ClockInv: device.next = read_number * scans_per_read), so that  *)
(* the stamp of a sample is off by what LJM_eStreamStart took; and the two *)
(* loops pass the samples in an order in which, channel by channel,        *)
(* nothing is early, left out or twice (GroupedInv).                       *)
(***************************************************************************)

\* The scans a stream has time for are numbers of an int.
ScansFit == \A n \in 0..MaxClock : Narrow(n) = n

\* What the second after an error is good for.
PauseCoversStart == Latency <= Pause

Running == at \in {"read", "publish"}

\* The counters of the worker are those of the device.
ClockInv ==
    /\ clock \in 0..MaxClock /\ since \in 0..clock /\ stream_start \in 0..clock
    /\ demo_mode \in BOOLEAN
    /\ at \in {"config", "start", "starting", "read", "publish", "pause"}
    /\ scan_rate \in 1..MaxPeriod
    /\ read_number \in Nat
    /\ device \in Streaming /\ device.start <= clock
    /\ at = "config" => device.session = 0
    /\ at = "starting" =>
          /\ device.session > 0 /\ device.next = 0
          /\ device.start = since /\ clock <= since + Latency
    /\ Running =>
          /\ device.session > 0
          /\ scan_rate = device.period
          /\ stream_start - device.start \in 0..Latency
          /\ device.next = read_number * ScansPerRead
          /\ device.start + device.next * device.period <= clock
    /\ at = "publish" => read_number > 0

\* The first scan of the block that is published.
First == device.next - ScansPerRead

\* The pass through the loops for mapping m of a scan is done.
Done(scan, m) ==
    \/ scan < scan_index
    \/ scan = scan_index /\ m < mapping_index

\* In the order of the loops.
Earlier(a, b) ==
    \/ a.session < b.session
    \/ a.session = b.session /\ a.scan < b.scan
    \/ a.session = b.session /\ a.scan = b.scan /\ a.mapping < b.mapping

InOrder(f) ==
    \A c \in Channels : \A i, j \in DOMAIN f[c] :
        i < j => Earlier(f[c][i].value, f[c][j].value)

\* A sample of the stream that runs.
Accurate(e) == e.stamp - e.value.taken \in 0..Latency
StampedRight(e) == e.stamp = stream_start + e.value.scan * scan_rate

DataInv ==
    IF at = "publish"
    THEN \A s \in Scans, m \in DOMAIN Mappings :
            data[DataIndex(s, m)] =
                [session |-> device.session, scan |-> First + s, mapping |-> m,
                 taken |-> device.start + (First + s) * device.period]
    ELSE data = <<>>

LoopInv ==
    /\ data \in Seq(Samples)
    /\ scan_index \in 0..ScansPerRead /\ mapping_index \in DOMAIN Mappings
    /\ scan_index = ScansPerRead => mapping_index = 1
    /\ grouped \in [Channels -> Seq(Stamped)]
    /\ at # "publish" => scan_index = 0 /\ mapping_index = 1 /\ grouped = Nothing

\* What of the block is grouped so far.
GroupedInv ==
    /\ \A c \in Channels : \A i \in DOMAIN grouped[c] :
          LET e == grouped[c][i]
          IN  /\ Mappings[e.value.mapping] = c
              /\ e.value.session = device.session
              /\ e.value.scan \in First..device.next - 1
              /\ Done(e.value.scan - First, e.value.mapping)
              /\ Accurate(e) /\ StampedRight(e)
    /\ InOrder(grouped)
    /\ \A s \in Scans, m \in DOMAIN Mappings :
          at = "publish" /\ Done(s, m) =>
              \E i \in DOMAIN grouped[Mappings[m]] :
                  /\ grouped[Mappings[m]][i].value.scan = First + s
                  /\ grouped[Mappings[m]][i].value.mapping = m

\* What is written.
WrittenInv ==
    /\ written \in [Channels -> Seq(Stamped)]
    /\ \A c \in Channels : \A i \in DOMAIN written[c] :
          LET e == written[c][i]
          IN  /\ Mappings[e.value.mapping] = c
              /\ e.value.session \in 1..device.session
              /\ Accurate(e)
              /\ e.value.session = device.session =>
                    /\ e.value.scan < device.next - Unpublished
                    /\ Running => StampedRight(e)
    /\ InOrder(written)

\* Nothing of it is missing.
CompleteInv ==
    \A m \in DOMAIN Mappings, s \in 1..device.session :
        /\ \A i \in PlacesOf(s, m) : \A k \in 0..ScanAt(m, i) :
              \E j \in PlacesOf(s, m) : ScanAt(m, j) = k
        /\ s = device.session =>
              \A k \in 0..device.next - Unpublished - 1 :
                  \E j \in PlacesOf(s, m) : ScanAt(m, j) = k

StreamInv == ClockInv /\ DataInv /\ LoopInv /\ GroupedInv /\ WrittenInv /\ CompleteInv

\* The stamps of streams that ended are in the past.
PastInv ==
    \A c \in Channels : \A i \in DOMAIN written[c] :
        LET e == written[c][i]
        IN  /\ Running /\ e.value.session < device.session => e.stamp < stream_start
            /\ at \in {"start", "starting"} => e.stamp < clock
            /\ at = "pause" => e.stamp < since + Latency

--------------------------------------------------------------------------------
(* Arithmetic, and the buffer of a read.                                      *)

LEMMA ProductGrows ==
    ASSUME NEW a \in Nat, NEW p \in Nat \ {0}
    PROVE  a * p \in Nat /\ a <= a * p
OBVIOUS

LEMMA ProductMonotone ==
    ASSUME NEW a \in Nat, NEW b \in Nat, NEW p \in Nat
    PROVE  /\ a <= b => a * p <= b * p
           /\ a < b => a * p + p <= b * p
           /\ (a + 1) * p = a * p + p
OBVIOUS

LEMMA Quotient ==
    ASSUME NEW q \in Nat, NEW p \in Nat \ {0}, NEW r \in 0..p - 1
    PROVE  (q * p + r) \div p = q /\ (q * p + r) % p = r
OBVIOUS

LEMMA QuotientKnown ==
    ASSUME NEW a \in Nat, NEW p \in Nat \ {0}
    PROVE  a \div p \in Nat /\ a % p \in 0..p - 1
OBVIOUS

LEMMA ConstantsKnown ==
    /\ Len(Mappings) \in Nat \ {0} /\ DOMAIN Mappings = 1..Len(Mappings)
    /\ ScansPerRead \in Nat \ {0} /\ MaxPeriod \in Nat \ {0} /\ Target \in 1..MaxPeriod
    /\ Latency \in Nat /\ Pause \in Nat /\ MaxClock \in Nat
    /\ \A m \in DOMAIN Mappings : Mappings[m] \in Channels
<1>1. Mappings \in Seq(STRING) /\ Mappings # <<>>
  BY SamplesAssumption
<1>2. Len(Mappings) \in Nat \ {0} /\ DOMAIN Mappings = 1..Len(Mappings)
  BY <1>1, EmptySeq, LenProperties
<1> QED
  BY <1>2, SamplesAssumption DEF Channels

\* The place of a sample in the buffer, and back.
LEMMA DataIndexKnown ==
    ASSUME NEW s \in Scans, NEW m \in DOMAIN Mappings
    PROVE  /\ DataIndex(s, m) \in Places
           /\ ScanOf(DataIndex(s, m)) = s
           /\ MappingOf(DataIndex(s, m)) = m
<1> DEFINE L == Len(Mappings)
<1>1. L \in Nat \ {0} /\ m \in 1..L /\ ScansPerRead \in Nat \ {0} /\ s \in Nat
  BY ConstantsKnown DEF Scans
<1>2. m - 1 \in 0..L - 1
  BY <1>1
<1>3. (s * L + (m - 1)) \div L = s /\ (s * L + (m - 1)) % L = m - 1
  BY <1>1, <1>2, Quotient
<1>4. s * L \in Nat /\ ScansPerRead * L \in Nat /\ s * L + L <= ScansPerRead * L
  BY <1>1, ProductGrows, ProductMonotone DEF Scans
<1>5. DataIndex(s, m) - 1 = s * L + (m - 1)
  BY <1>1, <1>4 DEF DataIndex
<1>6. DataIndex(s, m) \in Places
  BY <1>1, <1>4 DEF DataIndex, Places
<1> QED
  BY <1>1, <1>3, <1>5, <1>6 DEF ScanOf, MappingOf

LEMMA BlockKnown ==
    ASSUME device \in Streaming
    PROVE  /\ Block \in Seq(Samples)
           /\ \A s \in Scans, m \in DOMAIN Mappings :
                 Block[DataIndex(s, m)] =
                     [session |-> device.session, scan |-> device.next + s, mapping |-> m,
                      taken |-> device.start + (device.next + s) * device.period]
<1>1. /\ device.session \in Nat /\ device.next \in Nat /\ device.start \in Nat
      /\ device.period \in Nat \ {0}
  BY DEF Streaming
<1>2. ASSUME NEW i \in Places
      PROVE  ScanOf(i) \in Nat /\ MappingOf(i) \in DOMAIN Mappings
  <2>1. i - 1 \in Nat /\ Len(Mappings) \in Nat \ {0}
    BY ConstantsKnown DEF Places
  <2>2. (i - 1) \div Len(Mappings) \in Nat /\ (i - 1) % Len(Mappings) \in 0..Len(Mappings) - 1
    BY <2>1, QuotientKnown
  <2> QED
    BY <2>1, <2>2, ConstantsKnown DEF ScanOf, MappingOf
<1>3. ASSUME NEW i \in Places
      PROVE  [session |-> device.session, scan |-> device.next + ScanOf(i),
              mapping |-> MappingOf(i),
              taken |-> device.start + (device.next + ScanOf(i)) * device.period] \in Samples
  <2>1. device.next + ScanOf(i) \in Nat
    BY <1>1, <1>2
  <2>2. device.start + (device.next + ScanOf(i)) * device.period \in Nat
    BY <1>1, <2>1, ProductGrows
  <2> QED
    BY <1>1, <1>2, <2>1, <2>2 DEF Samples
<1>4. ScansPerRead * Len(Mappings) \in Nat
  BY ConstantsKnown, ProductGrows
<1>5. Block \in [Places -> Samples]
  BY <1>3 DEF Block
<1>6. Block \in Seq(Samples)
  BY <1>4, <1>5, IsASeq DEF Places
<1> QED
  BY <1>6, DataIndexKnown DEF Block

--------------------------------------------------------------------------------
(* The counters.                                                              *)

LEMMA ClockInit == Init => ClockInv
BY ConstantsKnown DEF Init, ClockInv, Streaming, Running

LEMMA ClockKnown ==
    ASSUME ClockInv
    PROVE  /\ clock \in Nat /\ since \in Nat /\ stream_start \in Nat
           /\ device.session \in Nat /\ device.start \in Nat /\ device.next \in Nat
           /\ device.period \in Nat \ {0}
           /\ scan_rate \in Nat \ {0} /\ read_number \in Nat
BY ConstantsKnown DEF ClockInv, Streaming

LEMMA ClockTick ==
    ASSUME ClockInv, Tick
    PROVE  ClockInv'
<1>1. /\ clock < MaxClock /\ clock' = clock + 1
      /\ at = "starting" => clock < since + Latency
      /\ UNCHANGED <<demo_mode, at, since, scan_rate, stream_start, read_number, device>>
  BY DEF Tick, worker, stream
<1>2. clock \in Nat /\ since \in Nat /\ stream_start \in Nat /\ device.start \in Nat
  BY ClockKnown
<1>3. Running => device.start + device.next * device.period \in Nat
  BY ClockKnown, ProductGrows
<1> QED
  BY <1>1, <1>2, <1>3, ConstantsKnown DEF ClockInv, Running

LEMMA ClockStart ==
    ASSUME ClockInv, StartStream
    PROVE  ClockInv'
<1>1. PICK period \in Accepted(scan_rate) :
          device' = [session |-> device.session + 1, start |-> clock,
                     period |-> period, next |-> 0]
  BY DEF StartStream
<1>2. /\ at' = "starting" /\ since' = clock
      /\ UNCHANGED <<clock, demo_mode, scan_rate, stream_start, read_number>>
  BY DEF StartStream, Goto, stream
<1>3. device' \in Streaming /\ device'.session > 0
  BY <1>1, ClockKnown DEF Streaming, Accepted
<1> QED
  BY <1>1, <1>2, <1>3, ClockKnown, ConstantsKnown DEF ClockInv, Running

LEMMA ClockStarted ==
    ASSUME ClockInv, Started
    PROVE  ClockInv'
<1>1. /\ at = "starting" /\ at' = "read" /\ since' = clock
      /\ scan_rate' = device.period /\ stream_start' = clock /\ read_number' = 0
      /\ UNCHANGED <<clock, demo_mode, device>>
  BY DEF Started, Goto
<1>2. device.next = 0 /\ device.start = since /\ clock <= since + Latency /\ device.session > 0
  BY <1>1 DEF ClockInv
<1>3. /\ stream_start' - device.start \in 0..Latency
      /\ device.next * device.period = 0 /\ 0 * ScansPerRead = 0
  BY <1>1, <1>2, ClockKnown, ConstantsKnown DEF ClockInv
<1>4. device.period \in 1..MaxPeriod
  BY DEF ClockInv, Streaming
<1> QED
  BY <1>1, <1>2, <1>3, <1>4, ClockKnown, ConstantsKnown DEF ClockInv, Running

LEMMA ClockStartedDemo ==
    ASSUME ClockInv, StartedDemo
    PROVE  ClockInv'
<1>1. /\ at' = "read" /\ since' = clock
      /\ device' = [session |-> device.session + 1, start |-> clock,
                    period |-> scan_rate, next |-> 0]
      /\ stream_start' = clock /\ read_number' = 0
      /\ UNCHANGED <<clock, demo_mode, scan_rate>>
  BY DEF StartedDemo, Goto
<1>2. device' \in Streaming /\ device'.session > 0
  BY <1>1, ClockKnown DEF Streaming, ClockInv
<1>3. /\ stream_start' - device'.start \in 0..Latency
      /\ device'.next * device'.period = 0 /\ 0 * ScansPerRead = 0
  BY <1>1, ClockKnown, ConstantsKnown
<1> QED
  BY <1>1, <1>2, <1>3, ClockKnown, ConstantsKnown DEF ClockInv, Running

LEMMA ClockRead ==
    ASSUME ClockInv, Read
    PROVE  ClockInv'
<1>1. /\ at = "read" /\ at' = "publish" /\ since' = clock
      /\ clock >= device.start + (device.next + ScansPerRead) * device.period
      /\ device' = [device EXCEPT !.next = @ + ScansPerRead]
      /\ read_number' = read_number + 1
      /\ UNCHANGED <<clock, demo_mode, scan_rate, stream_start>>
  BY DEF Read, Goto, BlockReady
<1>2. /\ device' \in Streaming
      /\ device'.next = device.next + ScansPerRead
      /\ device'.session = device.session /\ device'.start = device.start
      /\ device'.period = device.period
  <2>1. device \in Streaming /\ ScansPerRead \in Nat
    BY ConstantsKnown DEF ClockInv
  <2>2. device.next + ScansPerRead \in Nat
    BY <2>1, ClockKnown
  <2> QED
    BY <1>1, <2>1, <2>2 DEF Streaming
<1>3. device'.next = read_number' * ScansPerRead
  <2>1. device.next = read_number * ScansPerRead
    BY <1>1 DEF ClockInv, Running
  <2>2. (read_number + 1) * ScansPerRead = read_number * ScansPerRead + ScansPerRead
    BY ClockKnown, ConstantsKnown, ProductMonotone
  <2> QED
    BY <1>1, <1>2, <2>1, <2>2
<1>4. device'.start + device'.next * device'.period <= clock
  <2>1. (device.next + ScansPerRead) * device.period \in Nat
    BY ClockKnown, ConstantsKnown, ProductGrows
  <2> QED
    BY <1>1, <1>2, <2>1, ClockKnown
<1>5. /\ device.session > 0 /\ scan_rate = device.period
      /\ stream_start - device.start \in 0..Latency
  BY <1>1 DEF ClockInv, Running
<1>6. Running' => /\ device'.session > 0 /\ scan_rate' = device'.period
                  /\ stream_start' - device'.start \in 0..Latency
                  /\ device'.next = read_number' * ScansPerRead
                  /\ device'.start + device'.next * device'.period <= clock'
  BY <1>1, <1>2, <1>3, <1>4, <1>5
<1>7. /\ clock' \in 0..MaxClock /\ since' \in 0..clock' /\ stream_start' \in 0..clock'
      /\ demo_mode' \in BOOLEAN /\ scan_rate' \in 1..MaxPeriod
      /\ read_number' \in Nat /\ read_number' > 0
      /\ device'.start <= clock'
  <2>1. /\ clock \in 0..MaxClock /\ stream_start \in 0..clock
        /\ demo_mode \in BOOLEAN /\ scan_rate \in 1..MaxPeriod
        /\ device.start <= clock
    BY DEF ClockInv
  <2>2. clock \in Nat /\ read_number \in Nat
    BY ClockKnown
  <2> QED
    BY <1>1, <1>2, <2>1, <2>2
<1> QED
  BY <1>1, <1>2, <1>6, <1>7 DEF ClockInv

\* The steps that only change the place of the worker.
LEMMA ClockGoto ==
    ASSUME ClockInv, ReadFails \/ Retry \/ Accept
    PROVE  ClockInv'
<1>1. /\ at' \in {"pause", "start"} /\ since' = clock
      /\ UNCHANGED <<clock, demo_mode, scan_rate, stream_start, read_number, device>>
  BY DEF ReadFails, Retry, Accept, Goto, stream
<1> QED
  BY <1>1, ClockKnown, ConstantsKnown DEF ClockInv, Running

LEMMA ClockGroup ==
    ASSUME ClockInv, Group
    PROVE  ClockInv'
<1>1. UNCHANGED <<clock, demo_mode, at, since, scan_rate, stream_start, read_number, device>>
  BY DEF Group, stream
<1> QED
  BY <1>1 DEF ClockInv, Running

LEMMA ClockPublish ==
    ASSUME ClockInv, Publish
    PROVE  ClockInv'
<1>1. /\ at = "publish" /\ at' = "read" /\ since' = clock
      /\ UNCHANGED <<clock, demo_mode, scan_rate, stream_start, read_number, device>>
  BY DEF Publish, Goto, stream
<1> QED
  BY <1>1, ClockKnown, ConstantsKnown DEF ClockInv, Running

LEMMA ClockKept ==
    ASSUME ClockInv, UNCHANGED sampleVars
    PROVE  ClockInv'
BY DEF ClockInv, Running, sampleVars, worker, stream

LEMMA ClockStep ==
    ASSUME ClockInv, [Next]_vars
    PROVE  ClockInv'
BY ClockTick, ClockStart, ClockStarted, ClockStartedDemo, ClockRead, ClockGoto,
   ClockGroup, ClockPublish, ClockKept DEF Next, SampleSteps, vars

\* The scans the device counts are as far as the worker's numbers go, and those
\* are numbers of an int.
LEMMA ScanNumberRight ==
    ASSUME ScansFit, ClockInv, at = "publish", NEW s \in Scans
    PROVE  /\ First \in Nat /\ First + s \in Nat /\ First + s < device.next
           /\ Timestamp(read_number, s) = stream_start + (First + s) * scan_rate
<1>1. /\ read_number \in Nat \ {0} /\ ScansPerRead \in Nat \ {0}
      /\ s \in Nat /\ s < ScansPerRead
  BY ClockKnown, ConstantsKnown DEF ClockInv, Scans
<1>2. /\ device.next = read_number * ScansPerRead
      /\ device.start + device.next * device.period <= clock
  BY DEF ClockInv, Running
<1>3. /\ read_number - 1 \in Nat /\ (read_number - 1) * ScansPerRead \in Nat
      /\ read_number * ScansPerRead = (read_number - 1) * ScansPerRead + ScansPerRead
  <2>1. read_number - 1 \in Nat
    BY <1>1
  <2>2. ((read_number - 1) + 1) * ScansPerRead = (read_number - 1) * ScansPerRead + ScansPerRead
    BY <1>1, <2>1, ProductMonotone
  <2>3. (read_number - 1) + 1 = read_number
    BY <1>1
  <2> QED
    BY <1>1, <2>1, <2>2, <2>3, ProductGrows
<1>4. First = (read_number - 1) * ScansPerRead /\ First \in Nat
  BY <1>1, <1>2, <1>3 DEF First
<1>5. device.next <= MaxClock
  <2>1. device.next <= device.next * device.period /\ device.next * device.period \in Nat
    BY ClockKnown, ProductGrows
  <2>2. clock <= MaxClock /\ clock \in Nat /\ device.start \in Nat /\ MaxClock \in Nat
    BY ClockKnown, ConstantsKnown DEF ClockInv
  <2> QED
    BY <1>2, <2>1, <2>2, ClockKnown
<1>6. First + s \in Nat /\ First + s < device.next
  BY <1>1, <1>4, ClockKnown DEF First
<1>7. First \in 0..MaxClock /\ First + s \in 0..MaxClock
  BY <1>1, <1>4, <1>5, <1>6, ClockKnown, ConstantsKnown
<1>8. Narrow(First) = First /\ Narrow(First + s) = First + s
  BY <1>7 DEF ScansFit
<1>9. ScanNumber(read_number, s) = First + s
  BY <1>4, <1>8 DEF ScanNumber
<1> QED
  BY <1>4, <1>6, <1>9 DEF Timestamp

--------------------------------------------------------------------------------
(* The loops.                                                                 *)

\* Nothing is grouped where the loops have not begun.
LEMMA FreshInit ==
    ASSUME scan_index = 0, mapping_index = 1, grouped = Nothing
    PROVE  GroupedInv
<1>1. \A c \in Channels : DOMAIN grouped[c] = {}
  BY DEF Nothing
<1>2. \A s \in Scans, m \in DOMAIN Mappings : ~Done(s, m)
  BY ConstantsKnown DEF Done, Scans
<1> QED
  BY <1>1, <1>2, ConstantsKnown DEF GroupedInv, InOrder

LEMMA FreshNext ==
    ASSUME scan_index' = 0, mapping_index' = 1, grouped' = Nothing
    PROVE  GroupedInv'
<1>1. \A c \in Channels : DOMAIN grouped'[c] = {}
  BY DEF Nothing
<1>2. \A s \in Scans, m \in DOMAIN Mappings : ~(Done(s, m)')
  BY ConstantsKnown DEF Done, Scans
<1> QED
  BY <1>1, <1>2, ConstantsKnown DEF GroupedInv, InOrder

LEMMA NothingTyped == Nothing \in [Channels -> Seq(Stamped)]
BY DEF Nothing

LEMMA LoopInit == Init => DataInv /\ LoopInv /\ GroupedInv
<1> SUFFICES ASSUME Init PROVE DataInv /\ LoopInv /\ GroupedInv
  OBVIOUS
<1>1. at = "config" /\ data = <<>> /\ scan_index = 0 /\ mapping_index = 1 /\ grouped = Nothing
  BY DEF Init
<1>2. <<>> \in Seq(Samples) /\ 0 \in 0..ScansPerRead /\ 1 \in DOMAIN Mappings
  BY ConstantsKnown
<1> QED
  BY <1>1, <1>2, NothingTyped, FreshInit DEF DataInv, LoopInv

\* The steps outside the loops.
LEMMA LoopQuiet ==
    ASSUME DataInv, LoopInv, GroupedInv, at # "publish", at' # "publish",
           UNCHANGED <<data, loops>>
    PROVE  DataInv' /\ LoopInv' /\ GroupedInv'
<1>1. UNCHANGED <<data, scan_index, mapping_index, grouped>>
  BY DEF loops
<1>2. scan_index = 0 /\ mapping_index = 1 /\ grouped = Nothing /\ data = <<>>
  BY DEF LoopInv, DataInv
<1>3. GroupedInv'
  BY <1>1, <1>2, FreshNext
<1> QED
  BY <1>1, <1>2, <1>3 DEF LoopInv, DataInv

\* Those that change nothing the loops look at.
LEMMA LoopKept ==
    ASSUME DataInv, LoopInv, GroupedInv,
           UNCHANGED <<at, stream, data, loops, device>>
    PROVE  DataInv' /\ LoopInv' /\ GroupedInv'
<1>1. UNCHANGED <<at, scan_rate, stream_start, read_number, data, scan_index,
                  mapping_index, grouped, device>>
  BY DEF loops, stream
<1>2. DataInv'
  BY <1>1 DEF DataInv, First
<1>3. LoopInv'
  BY <1>1 DEF LoopInv
<1>4. GroupedInv'
  BY <1>1 DEF GroupedInv, InOrder, Earlier, Accurate, StampedRight, Done, First
<1> QED
  BY <1>2, <1>3, <1>4

LEMMA LoopRead ==
    ASSUME ClockInv, DataInv, LoopInv, Read
    PROVE  DataInv' /\ LoopInv' /\ GroupedInv'
<1>1. /\ at = "read" /\ at' = "publish" /\ data' = Block
      /\ device' = [device EXCEPT !.next = @ + ScansPerRead]
      /\ UNCHANGED <<scan_index, mapping_index, grouped>>
  BY DEF Read, Goto, loops
<1>2. device \in Streaming
  BY DEF ClockInv
<1>3. /\ device'.session = device.session /\ device'.start = device.start
      /\ device'.period = device.period
      /\ device'.next = device.next + ScansPerRead
  BY <1>1, <1>2 DEF Streaming
<1>4. First' = device.next
  BY <1>3, ClockKnown, ConstantsKnown DEF First
<1>5. DataInv'
  BY <1>1, <1>2, <1>3, <1>4, BlockKnown DEF DataInv
<1>6. scan_index = 0 /\ mapping_index = 1 /\ grouped = Nothing
  BY <1>1 DEF LoopInv
<1>7. LoopInv'
  BY <1>1, <1>2, <1>6, BlockKnown DEF LoopInv
<1>8. GroupedInv'
  BY <1>1, <1>6, FreshNext
<1> QED
  BY <1>5, <1>7, <1>8

LEMMA LoopPublish ==
    ASSUME LoopInv, Publish
    PROVE  DataInv' /\ LoopInv' /\ GroupedInv'
<1>1. /\ at' = "read" /\ data' = <<>>
      /\ scan_index' = 0 /\ mapping_index' = 1 /\ grouped' = Nothing
  BY DEF Publish, Goto
<1>2. <<>> \in Seq(Samples) /\ 0 \in 0..ScansPerRead /\ 1 \in DOMAIN Mappings
  BY ConstantsKnown
<1> QED
  BY <1>1, <1>2, NothingTyped, FreshNext DEF DataInv, LoopInv

\* The sample whose turn it is.
LEMMA NextSampleKnown ==
    ASSUME ScansFit, ClockInv, DataInv, LoopInv, at = "publish", scan_index < ScansPerRead
    PROVE  /\ NextSample \in Stamped
           /\ NextSample.value =
                 [session |-> device.session, scan |-> First + scan_index,
                  mapping |-> mapping_index,
                  taken |-> device.start + (First + scan_index) * device.period]
           /\ First + scan_index \in First..device.next - 1
           /\ Accurate(NextSample) /\ StampedRight(NextSample)
<1>1. scan_index \in Scans /\ mapping_index \in DOMAIN Mappings
  BY ConstantsKnown DEF LoopInv, Scans
<1>2. /\ First \in Nat /\ First + scan_index \in Nat /\ First + scan_index < device.next
      /\ NextSample.stamp = stream_start + (First + scan_index) * scan_rate
  BY <1>1, ScanNumberRight DEF NextSample
<1>3. NextSample.value =
          [session |-> device.session, scan |-> First + scan_index,
           mapping |-> mapping_index,
           taken |-> device.start + (First + scan_index) * device.period]
  BY <1>1 DEF NextSample, DataInv
<1>4. scan_rate = device.period /\ stream_start - device.start \in 0..Latency
  BY DEF ClockInv, Running
<1>5. (First + scan_index) * device.period \in Nat
  BY <1>2, ClockKnown, ProductGrows
<1>6. device.start + (First + scan_index) * device.period \in Nat
  BY <1>5, ClockKnown
<1>7. NextSample.value \in Samples
  BY <1>1, <1>2, <1>3, <1>6, ClockKnown DEF Samples
<1>8. NextSample.stamp \in Int
  BY <1>2, <1>4, <1>5, ClockKnown
<1>9. NextSample \in Stamped
  BY <1>7, <1>8 DEF NextSample, Stamped
<1>10. Accurate(NextSample)
  <2> DEFINE offset == (First + scan_index) * device.period
  <2>1. NextSample.stamp = stream_start + offset /\ NextSample.value.taken = device.start + offset
    BY <1>2, <1>3, <1>4
  <2>2. offset \in Nat /\ stream_start \in Nat /\ device.start \in Nat
    BY <1>5, ClockKnown
  <2> HIDE DEF offset
  <2>3. NextSample.stamp - NextSample.value.taken = stream_start - device.start
    BY <2>1, <2>2
  <2> QED
    BY <1>4, <2>3 DEF Accurate
<1>11. StampedRight(NextSample)
  BY <1>2, <1>3 DEF StampedRight
<1>12. First + scan_index \in First..device.next - 1
  BY <1>1, <1>2, ClockKnown DEF Scans
<1> QED
  BY <1>3, <1>9, <1>10, <1>11, <1>12

\* Done, of the state after a step.
DoneAfter(scan, m) ==
    \/ scan < scan_index'
    \/ scan = scan_index' /\ m < mapping_index'

\* One pass, and what is done after it.
LEMMA OnePass ==
    ASSUME LoopInv, Group
    PROVE  /\ scan_index' \in 0..ScansPerRead /\ mapping_index' \in DOMAIN Mappings
           /\ scan_index' = ScansPerRead => mapping_index' = 1
           /\ \A s \in Nat, m \in DOMAIN Mappings :
                 DoneAfter(s, m) <=> Done(s, m) \/ (s = scan_index /\ m = mapping_index)
<1>1. /\ scan_index \in 0..ScansPerRead /\ scan_index < ScansPerRead
      /\ mapping_index \in 1..Len(Mappings) /\ Len(Mappings) \in Nat
      /\ ScansPerRead \in Nat
  BY ConstantsKnown DEF LoopInv, Group
<1>2. CASE mapping_index < Len(Mappings)
  <2>1. mapping_index' = mapping_index + 1 /\ scan_index' = scan_index
    BY <1>2 DEF Group
  <2> QED
    BY <1>1, <1>2, <2>1, ConstantsKnown DEF Done, DoneAfter
<1>3. CASE ~(mapping_index < Len(Mappings))
  <2>1. mapping_index' = 1 /\ scan_index' = scan_index + 1
    BY <1>3 DEF Group
  <2> QED
    BY <1>1, <1>3, <2>1, ConstantsKnown DEF Done, DoneAfter
<1> QED
  BY <1>2, <1>3

\* What is appended to one channel, and to the others nothing.
LEMMA OneAppended ==
    ASSUME NEW S, NEW f \in [Channels -> Seq(S)], NEW c \in Channels, NEW e \in S, NEW g,
           g = [f EXCEPT ![c] = Append(@, e)]
    PROVE  /\ g \in [Channels -> Seq(S)]
           /\ \A d \in Channels \ {c} : g[d] = f[d]
           /\ Len(f[c]) \in Nat /\ DOMAIN f[c] = 1..Len(f[c])
           /\ DOMAIN g[c] = 1..Len(f[c]) + 1
           /\ \A i \in DOMAIN f[c] : g[c][i] = f[c][i]
           /\ g[c][Len(f[c]) + 1] = e
<1>1. f[c] \in Seq(S)
  OBVIOUS
<1>2. /\ Append(f[c], e) \in Seq(S)
      /\ Len(Append(f[c], e)) = Len(f[c]) + 1
      /\ \A i \in 1..Len(f[c]) : Append(f[c], e)[i] = f[c][i]
      /\ Append(f[c], e)[Len(f[c]) + 1] = e
  BY <1>1, AppendProperties
<1>3. /\ Len(f[c]) \in Nat /\ DOMAIN f[c] = 1..Len(f[c])
      /\ DOMAIN Append(f[c], e) = 1..Len(f[c]) + 1
  BY <1>1, <1>2, LenProperties
<1>4. g[c] = Append(f[c], e) /\ \A d \in Channels \ {c} : g[d] = f[d]
  OBVIOUS
<1>5. g \in [Channels -> Seq(S)]
  BY <1>2, <1>4
<1> QED
  BY <1>2, <1>3, <1>4, <1>5

LEMMA LoopGroup ==
    ASSUME ScansFit, ClockInv, DataInv, LoopInv, GroupedInv, Group
    PROVE  DataInv' /\ LoopInv' /\ GroupedInv'
<1> DEFINE d == Destination
           e == NextSample
           n == Len(grouped[d]) + 1
<1>1. /\ at = "publish" /\ scan_index < ScansPerRead
      /\ grouped' = [grouped EXCEPT ![d] = Append(@, e)]
      /\ UNCHANGED <<at, scan_rate, stream_start, read_number, data, device>>
  BY DEF Group, stream
<1>2. /\ e \in Stamped
      /\ e.value.session = device.session /\ e.value.scan = First + scan_index
      /\ e.value.mapping = mapping_index
      /\ e.value.scan \in First..device.next - 1
      /\ Accurate(e) /\ StampedRight(e)
  BY <1>1, NextSampleKnown
<1>3. /\ mapping_index \in DOMAIN Mappings /\ d \in Channels /\ Mappings[mapping_index] = d
      /\ scan_index \in Nat
      /\ grouped \in [Channels -> Seq(Stamped)]
  BY ConstantsKnown DEF LoopInv, Destination
<1>4. /\ grouped' \in [Channels -> Seq(Stamped)]
      /\ \A c \in Channels \ {d} : grouped'[c] = grouped[c]
      /\ Len(grouped[d]) \in Nat /\ DOMAIN grouped[d] = 1..Len(grouped[d])
      /\ DOMAIN grouped'[d] = 1..n
      /\ \A i \in DOMAIN grouped[d] : grouped'[d][i] = grouped[d][i]
      /\ grouped'[d][n] = e
  <2> HIDE DEF d, e
  <2> QED
    BY <1>1, <1>2, <1>3, OneAppended
<1>5. /\ scan_index' \in 0..ScansPerRead /\ mapping_index' \in DOMAIN Mappings
      /\ scan_index' = ScansPerRead => mapping_index' = 1
      /\ \A s \in Nat, m \in DOMAIN Mappings :
            DoneAfter(s, m) <=> Done(s, m) \/ (s = scan_index /\ m = mapping_index)
  BY OnePass
<1>6. DataInv'
  BY <1>1 DEF DataInv, First
<1>7. LoopInv'
  BY <1>1, <1>4, <1>5 DEF LoopInv
<1>8. First' = First /\ First \in Nat /\ First + scan_index \in Nat
  <2>1. scan_index \in Scans
    BY <1>1, <1>3, ConstantsKnown DEF Scans
  <2> QED
    BY <1>1, <2>1, ScanNumberRight DEF First
<1> HIDE DEF d, e
\* Where a sample of grouped' is from.
<1>9. ASSUME NEW c \in Channels, NEW i \in DOMAIN grouped'[c]
      PROVE  \/ i \in DOMAIN grouped[c] /\ grouped'[c][i] = grouped[c][i]
             \/ c = d /\ i = n /\ grouped'[c][i] = e
  <2>1. CASE c = d
    BY <1>4, <2>1
  <2>2. CASE c # d
    BY <1>4, <2>2
  <2> QED
    BY <2>1, <2>2
<1>10. ASSUME NEW c \in Channels, NEW i \in DOMAIN grouped'[c]
       PROVE  LET x == grouped'[c][i]
              IN  /\ Mappings[x.value.mapping] = c
                  /\ x.value.session = device.session
                  /\ x.value.scan \in First..device.next - 1
                  /\ DoneAfter(x.value.scan - First, x.value.mapping)
                  /\ Accurate(x) /\ StampedRight(x)
  <2>1. CASE i \in DOMAIN grouped[c] /\ grouped'[c][i] = grouped[c][i]
    <3> DEFINE x == grouped[c][i]
    <3>1. /\ Mappings[x.value.mapping] = c
          /\ x.value.session = device.session
          /\ x.value.scan \in First..device.next - 1
          /\ Done(x.value.scan - First, x.value.mapping)
          /\ Accurate(x) /\ StampedRight(x)
      BY <2>1 DEF GroupedInv
    <3>2. x \in Stamped
      BY <1>3, <2>1, LenProperties, ElementOfSeq
    <3>3. x.value.mapping \in DOMAIN Mappings /\ x.value.scan - First \in Nat
      BY <1>8, <3>1, <3>2, ClockKnown DEF Stamped, Samples
    <3>4. DoneAfter(x.value.scan - First, x.value.mapping)
      BY <1>5, <3>1, <3>3
    <3> QED
      BY <2>1, <3>1, <3>4
  <2>2. CASE c = d /\ i = n /\ grouped'[c][i] = e
    <3>1. e.value.scan - First = scan_index
      BY <1>2, <1>3, <1>8
    <3>2. DoneAfter(e.value.scan - First, e.value.mapping)
      BY <1>2, <1>3, <1>5, <3>1
    <3> QED
      BY <1>2, <1>3, <2>2, <3>2
  <2> QED
    BY <1>9, <2>1, <2>2
<1>11. ASSUME NEW c \in Channels, NEW i \in DOMAIN grouped'[c],
              NEW j \in DOMAIN grouped'[c], i < j
       PROVE  Earlier(grouped'[c][i].value, grouped'[c][j].value)
  <2>1. CASE c # d
    BY <1>4, <1>11, <2>1 DEF GroupedInv, InOrder
  <2>2. CASE c = d /\ j \in DOMAIN grouped[d]
    <3>1. i \in DOMAIN grouped[d]
      BY <1>4, <1>11, <2>2
    <3> QED
      BY <1>3, <1>4, <1>11, <2>2, <3>1 DEF GroupedInv, InOrder
  <2>3. CASE c = d /\ j = n
    <3>1. i \in DOMAIN grouped[d] /\ grouped'[d][i] = grouped[d][i] /\ grouped'[d][j] = e
      BY <1>4, <1>11, <2>3
    <3> DEFINE x == grouped[d][i]
    <3>2. /\ x.value.session = device.session
          /\ x.value.scan \in First..device.next - 1
          /\ Done(x.value.scan - First, x.value.mapping)
      BY <1>3, <3>1 DEF GroupedInv
    <3>3. \/ x.value.scan < e.value.scan
          \/ x.value.scan = e.value.scan /\ x.value.mapping < e.value.mapping
      <4>1. x.value.scan \in Int /\ x.value.scan - First \in Int
        BY <1>8, <3>2, ClockKnown
      <4>2. CASE x.value.scan - First < scan_index
        BY <1>2, <1>3, <1>8, <4>1, <4>2
      <4>3. CASE x.value.scan - First = scan_index /\ x.value.mapping < mapping_index
        <5>1. x.value.scan = First + scan_index
          <6> DEFINE scan == x.value.scan
          <6>1. scan \in Int /\ scan - First = scan_index /\ First \in Nat /\ scan_index \in Nat
            BY <1>3, <1>8, <3>2, <4>1, <4>3, ClockKnown
          <6> HIDE DEF scan
          <6>2. scan = First + scan_index
            BY <6>1
          <6> QED
            BY <6>2 DEF scan
        <5>2. x.value.mapping < e.value.mapping
          BY <1>2, <4>3
        <5> QED
          BY <1>2, <5>1, <5>2
      <4> QED
        BY <3>2, <4>2, <4>3 DEF Done
    <3> QED
      BY <1>2, <2>3, <3>1, <3>2, <3>3 DEF Earlier
  <2> QED
    BY <1>4, <2>1, <2>2, <2>3
<1>12. ASSUME NEW s \in Scans, NEW m \in DOMAIN Mappings, DoneAfter(s, m)
       PROVE  \E i \in DOMAIN grouped'[Mappings[m]] :
                 /\ grouped'[Mappings[m]][i].value.scan = First + s
                 /\ grouped'[Mappings[m]][i].value.mapping = m
  <2>1. s \in Nat /\ Mappings[m] \in Channels
    BY ConstantsKnown DEF Scans
  <2>2. CASE Done(s, m)
    <3>1. PICK i \in DOMAIN grouped[Mappings[m]] :
             /\ grouped[Mappings[m]][i].value.scan = First + s
             /\ grouped[Mappings[m]][i].value.mapping = m
      BY <1>1, <2>2 DEF GroupedInv
    <3>2. i \in DOMAIN grouped'[Mappings[m]] /\ grouped'[Mappings[m]][i] = grouped[Mappings[m]][i]
      <4>1. CASE Mappings[m] = d
        BY <1>4, <3>1, <4>1
      <4>2. CASE Mappings[m] # d
        BY <1>4, <2>1, <3>1, <4>2
      <4> QED
        BY <4>1, <4>2
    <3> QED
      BY <3>1, <3>2
  <2>3. CASE s = scan_index /\ m = mapping_index
    <3>1. n \in DOMAIN grouped'[d] /\ grouped'[d][n] = e
      BY <1>4
    <3> QED
      BY <1>2, <1>3, <2>3, <3>1
  <2> QED
    BY <1>5, <1>12, <2>1, <2>2, <2>3
<1>13. GroupedInv'
  <2>1. \A x : /\ Accurate(x)' <=> Accurate(x)
               /\ StampedRight(x)' <=> StampedRight(x)
    BY <1>1 DEF Accurate, StampedRight
  <2>2. \A s, m : Done(s, m)' <=> DoneAfter(s, m)
    BY DEF Done, DoneAfter
  <2>3. InOrder(grouped)'
    BY <1>11 DEF InOrder, Earlier
  <2>4. \A s \in Scans, m \in DOMAIN Mappings :
           at' = "publish" /\ Done(s, m)' =>
               \E i \in DOMAIN grouped'[Mappings[m]] :
                   /\ grouped'[Mappings[m]][i].value.scan = First' + s
                   /\ grouped'[Mappings[m]][i].value.mapping = m
    BY <1>8, <1>12, <2>2
  <2>5. \A c \in Channels : \A i \in DOMAIN grouped'[c] :
           LET x == grouped'[c][i]
           IN  /\ Mappings[x.value.mapping] = c
               /\ x.value.session = device'.session
               /\ x.value.scan \in First'..device'.next - 1
               /\ DoneAfter(x.value.scan - First', x.value.mapping)
               /\ Accurate(x) /\ StampedRight(x)
    BY <1>1, <1>8, <1>10
  <2>6. (\A c \in Channels : \A i \in DOMAIN grouped[c] :
             LET x == grouped[c][i]
             IN  /\ Mappings[x.value.mapping] = c
                 /\ x.value.session = device.session
                 /\ x.value.scan \in First..device.next - 1
                 /\ Done(x.value.scan - First, x.value.mapping)
                 /\ Accurate(x) /\ StampedRight(x))'
    BY <2>1, <2>2, <2>5 DEF Accurate, StampedRight
  <2> QED
    BY <1>1, <2>3, <2>4, <2>6 DEF GroupedInv
<1> QED
  BY <1>6, <1>7, <1>13

--------------------------------------------------------------------------------
(* What is written.                                                           *)

LEMMA WrittenInit == Init => WrittenInv /\ CompleteInv
<1> SUFFICES ASSUME Init PROVE WrittenInv /\ CompleteInv
  OBVIOUS
<1>1. written = Nothing /\ device.session = 0
  BY DEF Init
<1>2. \A c \in Channels : DOMAIN written[c] = {}
  BY <1>1 DEF Nothing
<1> QED
  BY <1>1, <1>2, NothingTyped DEF WrittenInv, CompleteInv, InOrder

\* A written sample of a session that runs.
LEMMA WrittenKnown ==
    ASSUME WrittenInv, NEW c \in Channels, NEW i \in DOMAIN written[c]
    PROVE  /\ written[c][i] \in Stamped
           /\ written[c][i].stamp \in Int
           /\ written[c][i].value.session \in Nat
           /\ written[c][i].value.scan \in Nat
           /\ written[c][i].value.mapping \in DOMAIN Mappings
           /\ written[c][i].value.taken \in Nat
<1>1. written[c] \in Seq(Stamped)
  BY DEF WrittenInv
<1>2. written[c][i] \in Stamped
  BY <1>1, LenProperties, ElementOfSeq
<1> QED
  BY <1>2 DEF Stamped, Samples

\* The steps between two reads and those that change nothing of the stream.
LEMMA WrittenQuiet ==
    ASSUME WrittenInv, CompleteInv, UNCHANGED <<device, written>>,
           Unpublished' = Unpublished,
           Running' => Running /\ UNCHANGED stream
    PROVE  WrittenInv' /\ CompleteInv'
<1>1. Running' => Running /\ UNCHANGED <<scan_rate, stream_start>>
  BY DEF stream
<1>2. WrittenInv'
  <2>1. \A e : /\ Accurate(e)' <=> Accurate(e)
               /\ Running' => (StampedRight(e)' <=> StampedRight(e))
    BY <1>1 DEF Accurate, StampedRight
  <2> QED
    BY <1>1, <2>1 DEF WrittenInv, InOrder, Earlier
<1>3. CompleteInv'
  BY DEF CompleteInv, PlacesOf, ScanAt
<1> QED
  BY <1>2, <1>3

\* A stream is started: there is nothing of it yet.
LEMMA WrittenStart ==
    ASSUME ClockInv, WrittenInv, CompleteInv, UNCHANGED written,
           device'.session = device.session + 1, device'.next = 0, at' # "publish"
    PROVE  WrittenInv' /\ CompleteInv'
<1>1. device.session \in Nat /\ Unpublished' = 0
  BY ClockKnown DEF Unpublished
<1>2. ASSUME NEW c \in Channels, NEW i \in DOMAIN written[c]
      PROVE  /\ written[c][i].value.session \in 1..device'.session
             /\ written[c][i].value.session # device'.session
  BY <1>1 DEF WrittenInv
<1>3. WrittenInv'
  BY <1>2 DEF WrittenInv, InOrder, Earlier, Accurate
<1>4. CompleteInv'
  <2>1. 0..device'.next - Unpublished' - 1 = {}
    BY <1>1
  <2>2. ASSUME NEW m \in DOMAIN Mappings, NEW s \in 1..device'.session
        PROVE  \A i \in PlacesOf(s, m)' : \A k \in 0..ScanAt(m, i)' :
                  \E j \in PlacesOf(s, m)' : ScanAt(m, j)' = k
    <3>1. CASE s = device'.session
      BY <1>2, <3>1, ConstantsKnown DEF PlacesOf
    <3>2. CASE s # device'.session
      <4>1. s \in 1..device.session
        BY <1>1, <3>2
      <4> QED
        BY <4>1 DEF CompleteInv, PlacesOf, ScanAt
    <3> QED
      BY <3>1, <3>2
  <2> QED
    BY <2>1, <2>2 DEF CompleteInv, PlacesOf, ScanAt
<1> QED
  BY <1>3, <1>4

LEMMA WrittenStarted ==
    ASSUME ClockInv, WrittenInv, CompleteInv, Started
    PROVE  WrittenInv' /\ CompleteInv'
<1>1. /\ at = "starting" /\ at' = "read" /\ UNCHANGED <<device, written>>
  BY DEF Started, Goto
<1>2. device.next = 0 /\ Unpublished = 0 /\ Unpublished' = 0
  BY <1>1 DEF ClockInv, Unpublished
<1>3. ASSUME NEW c \in Channels, NEW i \in DOMAIN written[c]
      PROVE  written[c][i].value.session # device.session
  BY <1>2, WrittenKnown DEF WrittenInv
<1>4. WrittenInv'
  BY <1>1, <1>3 DEF WrittenInv, InOrder, Earlier, Accurate
<1>5. CompleteInv'
  BY <1>1, <1>2 DEF CompleteInv, PlacesOf, ScanAt
<1> QED
  BY <1>4, <1>5

LEMMA WrittenRead ==
    ASSUME ClockInv, WrittenInv, CompleteInv, Read
    PROVE  WrittenInv' /\ CompleteInv'
<1>1. /\ at = "read" /\ at' = "publish"
      /\ device' = [device EXCEPT !.next = @ + ScansPerRead]
      /\ UNCHANGED <<scan_rate, stream_start, written>>
  BY DEF Read, Goto
<1>2. /\ device'.session = device.session
      /\ device'.next = device.next + ScansPerRead
  BY <1>1 DEF ClockInv, Streaming
<1>3. device'.next - Unpublished' = device.next - Unpublished
  BY <1>1, <1>2, ClockKnown, ConstantsKnown DEF Unpublished
<1>4. WrittenInv'
  <2>1. Running
    BY <1>1 DEF Running
  <2>2. \A e : /\ Accurate(e)' <=> Accurate(e)
               /\ StampedRight(e)' <=> StampedRight(e)
    BY <1>1 DEF Accurate, StampedRight
  <2> QED
    BY <1>1, <1>2, <1>3, <2>1, <2>2 DEF WrittenInv, InOrder, Earlier
<1>5. CompleteInv'
  BY <1>1, <1>2, <1>3 DEF CompleteInv, PlacesOf, ScanAt
<1> QED
  BY <1>4, <1>5

\* Every channel gets its own.
Joined(h) == h = [c \in Channels |-> written[c] \o grouped[c]]

\* The places of the bulk writes.
LEMMA AllAppended ==
    ASSUME written \in [Channels -> Seq(Stamped)], grouped \in [Channels -> Seq(Stamped)], NEW h,
           Joined(h)
    PROVE  /\ h \in [Channels -> Seq(Stamped)]
           /\ \A c \in Channels :
                 /\ Len(written[c]) \in Nat
                 /\ DOMAIN written[c] = 1..Len(written[c]) /\ DOMAIN grouped[c] = 1..Len(grouped[c])
                 /\ \A i \in DOMAIN written[c] : i \in DOMAIN h[c] /\ h[c][i] = written[c][i]
                 /\ \A i \in DOMAIN grouped[c] :
                       /\ Len(written[c]) + i \in DOMAIN h[c]
                       /\ h[c][Len(written[c]) + i] = grouped[c][i]
                 /\ \A i \in DOMAIN h[c] :
                       \/ i \in DOMAIN written[c]
                       \/ \E j \in DOMAIN grouped[c] : i = Len(written[c]) + j
<1>1. ASSUME NEW c \in Channels
      PROVE  /\ written[c] \o grouped[c] \in Seq(Stamped)
             /\ Len(written[c]) \in Nat /\ Len(grouped[c]) \in Nat
             /\ DOMAIN written[c] = 1..Len(written[c]) /\ DOMAIN grouped[c] = 1..Len(grouped[c])
             /\ DOMAIN (written[c] \o grouped[c]) = 1..Len(written[c]) + Len(grouped[c])
             /\ \A i \in 1..Len(written[c]) + Len(grouped[c]) :
                   (written[c] \o grouped[c])[i] =
                       IF i <= Len(written[c]) THEN written[c][i]
                                               ELSE grouped[c][i - Len(written[c])]
  <2>1. written[c] \in Seq(Stamped) /\ grouped[c] \in Seq(Stamped)
    OBVIOUS
  <2>2. /\ written[c] \o grouped[c] \in Seq(Stamped)
        /\ Len(written[c] \o grouped[c]) = Len(written[c]) + Len(grouped[c])
    BY <2>1, ConcatProperties
  <2> QED
    BY <2>1, <2>2, ConcatProperties, LenProperties
<1>2. ASSUME NEW c \in Channels
      PROVE  h[c] = written[c] \o grouped[c]
  BY DEF Joined
<1>3. h \in [Channels -> Seq(Stamped)]
  BY <1>1 DEF Joined
<1>4. ASSUME NEW c \in Channels, NEW i \in DOMAIN written[c]
      PROVE  i \in DOMAIN h[c] /\ h[c][i] = written[c][i]
  <2>1. /\ Len(written[c]) \in Nat /\ Len(grouped[c]) \in Nat /\ i \in 1..Len(written[c])
        /\ DOMAIN h[c] = 1..Len(written[c]) + Len(grouped[c])
        /\ \A k \in 1..Len(written[c]) + Len(grouped[c]) :
              h[c][k] = IF k <= Len(written[c]) THEN written[c][k]
                                                ELSE grouped[c][k - Len(written[c])]
    BY <1>1, <1>2
  <2>2. i \in 1..Len(written[c]) + Len(grouped[c]) /\ i <= Len(written[c])
    BY <2>1
  <2> QED
    BY <2>1, <2>2
<1>5. ASSUME NEW c \in Channels, NEW i \in DOMAIN grouped[c]
      PROVE  Len(written[c]) + i \in DOMAIN h[c] /\ h[c][Len(written[c]) + i] = grouped[c][i]
  <2>1. /\ Len(written[c]) \in Nat /\ Len(grouped[c]) \in Nat /\ i \in 1..Len(grouped[c])
        /\ DOMAIN h[c] = 1..Len(written[c]) + Len(grouped[c])
        /\ \A k \in 1..Len(written[c]) + Len(grouped[c]) :
              h[c][k] = IF k <= Len(written[c]) THEN written[c][k]
                                                ELSE grouped[c][k - Len(written[c])]
    BY <1>1, <1>2
  <2>2. /\ Len(written[c]) + i \in 1..Len(written[c]) + Len(grouped[c])
        /\ ~(Len(written[c]) + i <= Len(written[c])) /\ (Len(written[c]) + i) - Len(written[c]) = i
    BY <2>1
  <2> QED
    BY <2>1, <2>2
<1>6. ASSUME NEW c \in Channels, NEW i \in DOMAIN h[c]
      PROVE  \/ i \in DOMAIN written[c]
             \/ \E j \in DOMAIN grouped[c] : i = Len(written[c]) + j
  <2>1. /\ Len(written[c]) \in Nat /\ Len(grouped[c]) \in Nat
        /\ DOMAIN written[c] = 1..Len(written[c]) /\ DOMAIN grouped[c] = 1..Len(grouped[c])
        /\ i \in 1..Len(written[c]) + Len(grouped[c])
    BY <1>1, <1>2
  <2>2. CASE i <= Len(written[c])
    BY <2>1, <2>2
  <2>3. CASE ~(i <= Len(written[c]))
    <3>1. i - Len(written[c]) \in DOMAIN grouped[c] /\ i = Len(written[c]) + (i - Len(written[c]))
      BY <2>1, <2>3
    <3> QED
      BY <3>1
  <2> QED
    BY <2>2, <2>3
<1> QED
  BY <1>1, <1>3, <1>4, <1>5, <1>6

\* What the bulk writes add, and where.
LEMMA PublishKnown ==
    ASSUME ClockInv, LoopInv, WrittenInv, Publish
    PROVE  /\ at = "publish" /\ at' = "read" /\ scan_index = ScansPerRead /\ mapping_index = 1
           /\ UNCHANGED <<scan_rate, stream_start, device>>
           /\ First \in Int /\ First = device.next - Unpublished /\ Unpublished' = 0
           /\ written' \in [Channels -> Seq(Stamped)]
           /\ \A c \in Channels :
                 /\ Len(written[c]) \in Nat
                 /\ DOMAIN written[c] = 1..Len(written[c])
                 /\ DOMAIN grouped[c] = 1..Len(grouped[c])
                 /\ \A i \in DOMAIN written[c] :
                       i \in DOMAIN written'[c] /\ written'[c][i] = written[c][i]
                 /\ \A i \in DOMAIN grouped[c] :
                       /\ Len(written[c]) + i \in DOMAIN written'[c]
                       /\ written'[c][Len(written[c]) + i] = grouped[c][i]
                 /\ \A i \in DOMAIN written'[c] :
                       \/ i \in DOMAIN written[c]
                       \/ \E j \in DOMAIN grouped[c] : i = Len(written[c]) + j
<1>1. /\ at = "publish" /\ at' = "read" /\ scan_index = ScansPerRead
      /\ written' = [c \in Channels |-> written[c] \o grouped[c]]
      /\ UNCHANGED <<scan_rate, stream_start, device>>
  BY DEF Publish, Goto, stream
<1>2. grouped \in [Channels -> Seq(Stamped)] /\ written \in [Channels -> Seq(Stamped)]
  BY DEF LoopInv, WrittenInv
<1>3. mapping_index = 1
  BY <1>1 DEF LoopInv
<1>4. First \in Int /\ First = device.next - Unpublished /\ Unpublished' = 0
  BY <1>1, ClockKnown, ConstantsKnown DEF First, Unpublished
<1>5. /\ written' \in [Channels -> Seq(Stamped)]
      /\ \A c \in Channels :
            /\ Len(written[c]) \in Nat
            /\ DOMAIN written[c] = 1..Len(written[c])
            /\ DOMAIN grouped[c] = 1..Len(grouped[c])
            /\ \A i \in DOMAIN written[c] :
                  i \in DOMAIN written'[c] /\ written'[c][i] = written[c][i]
            /\ \A i \in DOMAIN grouped[c] :
                  /\ Len(written[c]) + i \in DOMAIN written'[c]
                  /\ written'[c][Len(written[c]) + i] = grouped[c][i]
            /\ \A i \in DOMAIN written'[c] :
                  \/ i \in DOMAIN written[c]
                  \/ \E j \in DOMAIN grouped[c] : i = Len(written[c]) + j
  <2> DEFINE h == written'
  <2>1. Joined(h)
    BY <1>1 DEF Joined
  <2> HIDE DEF h
  <2>2. /\ h \in [Channels -> Seq(Stamped)]
        /\ \A c \in Channels :
              /\ Len(written[c]) \in Nat
              /\ DOMAIN written[c] = 1..Len(written[c])
              /\ DOMAIN grouped[c] = 1..Len(grouped[c])
              /\ \A i \in DOMAIN written[c] : i \in DOMAIN h[c] /\ h[c][i] = written[c][i]
              /\ \A i \in DOMAIN grouped[c] :
                    /\ Len(written[c]) + i \in DOMAIN h[c]
                    /\ h[c][Len(written[c]) + i] = grouped[c][i]
              /\ \A i \in DOMAIN h[c] :
                    \/ i \in DOMAIN written[c]
                    \/ \E j \in DOMAIN grouped[c] : i = Len(written[c]) + j
    BY <1>2, <2>1, AllAppended
  <2> QED
    BY <2>2 DEF h
<1> QED
  BY <1>1, <1>3, <1>4, <1>5

LEMMA WrittenPublish ==
    ASSUME ClockInv, LoopInv, GroupedInv, WrittenInv, Publish
    PROVE  WrittenInv'
<1>1. /\ at = "publish" /\ at' = "read"
      /\ UNCHANGED <<scan_rate, stream_start, device>>
      /\ First \in Int /\ First = device.next - Unpublished /\ Unpublished' = 0
      /\ written' \in [Channels -> Seq(Stamped)]
  BY PublishKnown
<1>2. \A c \in Channels :
         /\ Len(written[c]) \in Nat
         /\ DOMAIN written[c] = 1..Len(written[c])
         /\ DOMAIN grouped[c] = 1..Len(grouped[c])
         /\ \A i \in DOMAIN written[c] :
               i \in DOMAIN written'[c] /\ written'[c][i] = written[c][i]
         /\ \A i \in DOMAIN grouped[c] :
               /\ Len(written[c]) + i \in DOMAIN written'[c]
               /\ written'[c][Len(written[c]) + i] = grouped[c][i]
         /\ \A i \in DOMAIN written'[c] :
               \/ i \in DOMAIN written[c]
               \/ \E j \in DOMAIN grouped[c] : i = Len(written[c]) + j
  BY PublishKnown
<1>3. device.session \in Nat /\ device.session > 0 /\ device.next \in Nat
  BY <1>1, ClockKnown DEF ClockInv, Running
<1>4. ASSUME NEW c \in Channels, NEW i \in DOMAIN written'[c]
      PROVE  LET e == written'[c][i]
             IN  /\ Mappings[e.value.mapping] = c
                 /\ e.value.session \in 1..device.session
                 /\ Accurate(e)
                 /\ e.value.session = device.session =>
                       e.value.scan < device.next /\ StampedRight(e)
  <2>1. CASE i \in DOMAIN written[c]
    <3> DEFINE e == written[c][i]
    <3>1. /\ Mappings[e.value.mapping] = c
          /\ e.value.session \in 1..device.session
          /\ Accurate(e)
          /\ e.value.session = device.session =>
                e.value.scan < First /\ StampedRight(e)
      BY <1>1, <2>1 DEF WrittenInv, Running
    <3>2. e.value.scan < First => e.value.scan < device.next
      BY <1>1, <1>3, <2>1, WrittenKnown, ConstantsKnown DEF Unpublished
    <3> QED
      BY <1>2, <2>1, <3>1, <3>2
  <2>2. CASE \E j \in DOMAIN grouped[c] : i = Len(written[c]) + j
    <3>1. PICK j \in DOMAIN grouped[c] : i = Len(written[c]) + j
      BY <2>2
    <3> DEFINE e == grouped[c][j]
    <3>2. /\ Mappings[e.value.mapping] = c
          /\ e.value.session = device.session
          /\ e.value.scan \in First..device.next - 1
          /\ Accurate(e) /\ StampedRight(e)
      BY <3>1 DEF GroupedInv
    <3>3. e.value.scan < device.next
      BY <1>1, <1>3, <3>2
    <3>4. e.value.session \in 1..device.session
      BY <1>3, <3>2
    <3> QED
      BY <1>2, <3>1, <3>2, <3>3, <3>4
  <2> QED
    BY <1>2, <2>1, <2>2
<1>5. ASSUME NEW c \in Channels, NEW i \in DOMAIN written'[c],
             NEW j \in DOMAIN written'[c], i < j
      PROVE  Earlier(written'[c][i].value, written'[c][j].value)
  <2>1. CASE j \in DOMAIN written[c]
    <3>1. i \in DOMAIN written[c]
      BY <1>2, <1>5, <2>1
    <3> QED
      BY <1>2, <1>5, <2>1, <3>1 DEF WrittenInv, InOrder
  <2>2. CASE \E k \in DOMAIN grouped[c] : j = Len(written[c]) + k
    <3>1. PICK k \in DOMAIN grouped[c] : j = Len(written[c]) + k
      BY <2>2
    <3>2. CASE i \in DOMAIN written[c]
      <4> DEFINE a == written[c][i].value
                 b == grouped[c][k].value
      <4>1. /\ a.session \in 1..device.session
            /\ a.session = device.session => a.scan < First
            /\ a.scan \in Nat
        BY <1>1, <3>2, WrittenKnown DEF WrittenInv
      <4>2. b.session = device.session /\ b.scan \in First..device.next - 1
        BY <3>1 DEF GroupedInv
      <4>3. a.session = device.session => a.scan < b.scan
        BY <1>1, <1>3, <4>1, <4>2
      <4>4. a.session # device.session => a.session < b.session
        BY <1>3, <4>1, <4>2
      <4>5. Earlier(a, b)
        BY <4>2, <4>3, <4>4 DEF Earlier
      <4>6. written'[c][i].value = a /\ written'[c][j].value = b
        BY <1>2, <3>1, <3>2
      <4> QED
        BY <4>5, <4>6
    <3>3. CASE \E l \in DOMAIN grouped[c] : i = Len(written[c]) + l
      <4>1. PICK l \in DOMAIN grouped[c] : i = Len(written[c]) + l
        BY <3>3
      <4>2. l < k
        BY <1>2, <1>5, <3>1, <4>1
      <4>3. Earlier(grouped[c][l].value, grouped[c][k].value)
        BY <4>2 DEF GroupedInv, InOrder
      <4> QED
        BY <1>2, <3>1, <4>1, <4>3
    <3> QED
      BY <1>2, <3>2, <3>3
  <2> QED
    BY <1>2, <2>1, <2>2
<1>6. InOrder(written)'
  BY <1>5 DEF InOrder, Earlier
<1>7. device'.next - Unpublished' = device.next
  BY <1>1, <1>3
<1> QED
  BY <1>1, <1>4, <1>6, <1>7 DEF WrittenInv, Accurate, StampedRight

LEMMA CompletePublish ==
    ASSUME ClockInv, LoopInv, GroupedInv, WrittenInv, CompleteInv, Publish
    PROVE  CompleteInv'
<1>1. /\ at = "publish" /\ scan_index = ScansPerRead /\ mapping_index = 1
      /\ UNCHANGED device
      /\ First \in Int /\ First = device.next - Unpublished /\ Unpublished' = 0
  BY PublishKnown
<1>2. \A c \in Channels :
         /\ Len(written[c]) \in Nat
         /\ \A i \in DOMAIN written[c] :
               i \in DOMAIN written'[c] /\ written'[c][i] = written[c][i]
         /\ \A i \in DOMAIN grouped[c] :
               /\ Len(written[c]) + i \in DOMAIN written'[c]
               /\ written'[c][Len(written[c]) + i] = grouped[c][i]
         /\ \A i \in DOMAIN written'[c] :
               \/ i \in DOMAIN written[c]
               \/ \E j \in DOMAIN grouped[c] : i = Len(written[c]) + j
  BY PublishKnown
<1>3. device.session \in Nat /\ device.session > 0 /\ device.next \in Nat
  BY <1>1, ClockKnown DEF ClockInv, Running
<1>4. WrittenInv'
  BY WrittenPublish
\* The scans of a mapping that were written still are.
<1>5. ASSUME NEW m \in DOMAIN Mappings, NEW s, NEW i \in PlacesOf(s, m)
      PROVE  i \in PlacesOf(s, m)' /\ ScanAt(m, i)' = ScanAt(m, i)
  BY <1>2, ConstantsKnown DEF PlacesOf, ScanAt
\* Of older streams no more are.
<1>6. ASSUME NEW m \in DOMAIN Mappings, NEW s, s # device.session, NEW i \in PlacesOf(s, m)'
      PROVE  i \in PlacesOf(s, m) /\ ScanAt(m, i)' = ScanAt(m, i)
  <2> DEFINE c == Mappings[m]
  <2>1. c \in Channels /\ i \in DOMAIN written'[c] /\ written'[c][i].value.session = s
    BY ConstantsKnown DEF PlacesOf
  <2>2. CASE i \in DOMAIN written[c]
    BY <1>2, <2>1, <2>2 DEF PlacesOf, ScanAt
  <2>3. CASE \E j \in DOMAIN grouped[c] : i = Len(written[c]) + j
    <3>1. PICK j \in DOMAIN grouped[c] : i = Len(written[c]) + j
      BY <2>3
    <3>2. grouped[c][j].value.session = device.session
      BY <2>1, <3>1 DEF GroupedInv
    <3> QED
      BY <1>2, <1>6, <2>1, <3>1, <3>2
  <2> QED
    BY <1>2, <2>1, <2>2, <2>3
<1>7. ASSUME NEW m \in DOMAIN Mappings, NEW k \in 0..device.next - 1,
             NEW s, s = device.session
      PROVE  \E j \in PlacesOf(s, m)' : ScanAt(m, j)' = k
  <2> DEFINE c == Mappings[m]
  <2>1. CASE k < First
    <3>1. k \in 0..device.next - Unpublished - 1 /\ s \in 1..device.session
      BY <1>1, <1>3, <1>7, <2>1
    <3>2. PICK j \in PlacesOf(s, m) : ScanAt(m, j) = k
      BY <1>7, <3>1 DEF CompleteInv
    <3> QED
      BY <1>5, <3>2
  <2>2. CASE ~(k < First)
    <3>1. k - First \in Scans /\ First + (k - First) = k
      <4>1. First = device.next - ScansPerRead /\ ScansPerRead \in Nat /\ First \in Int
        BY <1>1, ConstantsKnown DEF First
      <4>2. k - First \in 0..ScansPerRead - 1 /\ First + (k - First) = k
        BY <1>3, <2>2, <4>1
      <4> QED
        BY <4>2 DEF Scans
    <3>2. Done(k - First, m)
      BY <1>1, <3>1, ConstantsKnown DEF Done, Scans
    <3>3. PICK i \in DOMAIN grouped[c] : /\ grouped[c][i].value.scan = First + (k - First)
                                         /\ grouped[c][i].value.mapping = m
      BY <1>1, <3>1, <3>2 DEF GroupedInv
    <3>4. c \in Channels /\ grouped[c][i].value.session = s
      BY <1>7, <3>3, ConstantsKnown DEF GroupedInv
    <3>5. PICK j \in DOMAIN written'[c] : written'[c][j] = grouped[c][i]
      BY <1>2, <3>3, <3>4
    <3>6. j \in PlacesOf(s, m)' /\ ScanAt(m, j)' = k
      BY <3>1, <3>3, <3>4, <3>5 DEF PlacesOf, ScanAt
    <3> QED
      BY <3>6
  <2> QED
    BY <2>1, <2>2
<1>8. ASSUME NEW m \in DOMAIN Mappings, NEW s \in 1..device.session,
             NEW i \in PlacesOf(s, m)', NEW k \in 0..ScanAt(m, i)'
      PROVE  \E j \in PlacesOf(s, m)' : ScanAt(m, j)' = k
  <2>1. CASE s = device.session
    <3>1. Mappings[m] \in Channels /\ i \in DOMAIN written'[Mappings[m]]
      BY ConstantsKnown DEF PlacesOf
    <3>2. /\ written'[Mappings[m]][i].value.session = device.session
          /\ written'[Mappings[m]][i].value.scan = ScanAt(m, i)'
      BY <2>1 DEF PlacesOf, ScanAt
    <3>3. ScanAt(m, i)' < device.next /\ ScanAt(m, i)' \in Nat
      <4>1. /\ ScanAt(m, i)' < device.next - Unpublished'
            /\ written' \in [Channels -> Seq(Stamped)]
        BY <1>1, <1>4, <3>1, <3>2 DEF WrittenInv
      <4>2. written'[Mappings[m]][i] \in Stamped
        BY <3>1, <4>1, LenProperties, ElementOfSeq
      <4>3. ScanAt(m, i)' \in Nat
        BY <3>2, <4>2 DEF Stamped, Samples
      <4> QED
        BY <1>1, <1>3, <4>1, <4>3
    <3>4. k \in 0..device.next - 1
      BY <1>3, <3>3
    <3> QED
      BY <1>7, <2>1, <3>4
  <2>2. CASE s # device.session
    <3>1. i \in PlacesOf(s, m) /\ k \in 0..ScanAt(m, i)
      BY <1>6, <2>2
    <3>2. PICK j \in PlacesOf(s, m) : ScanAt(m, j) = k
      BY <3>1 DEF CompleteInv
    <3> QED
      BY <1>5, <3>2
  <2> QED
    BY <2>1, <2>2
<1>9. device'.next - Unpublished' - 1 = device.next - 1
  BY <1>1, <1>3
<1> QED
  BY <1>1, <1>7, <1>8, <1>9 DEF CompleteInv

--------------------------------------------------------------------------------
(* Every step keeps it.                                                       *)

LEMMA StreamInit == Init => StreamInv
BY ClockInit, LoopInit, WrittenInit DEF StreamInv

LEMMA StreamQuiet ==
    ASSUME StreamInv, [Next]_vars, UNCHANGED <<device, written>>,
           \/ UNCHANGED <<at, stream, data, loops>>
           \/ at # "publish" /\ at' \notin {"read", "publish"} /\ UNCHANGED <<data, loops>>
    PROVE  StreamInv'
<1>1. ClockInv'
  BY ClockStep DEF StreamInv
<1>2. DataInv' /\ LoopInv' /\ GroupedInv'
  BY LoopKept, LoopQuiet DEF StreamInv
<1>3. Unpublished' = Unpublished /\ (Running' => Running /\ UNCHANGED stream)
  BY DEF Unpublished, Running
<1>4. WrittenInv' /\ CompleteInv'
  BY <1>3, WrittenQuiet DEF StreamInv
<1> QED
  BY <1>1, <1>2, <1>4 DEF StreamInv

LEMMA StreamStep ==
    ASSUME ScansFit, StreamInv, [Next]_vars
    PROVE  StreamInv'
<1>1. ClockInv'
  BY ClockStep DEF StreamInv
<1>2. CASE Tick
  BY <1>2, StreamQuiet DEF Tick, worker
<1>3. CASE StartStream
  <2>1. /\ at = "start" /\ at' = "starting" /\ UNCHANGED <<data, loops, written>>
        /\ device'.session = device.session + 1 /\ device'.next = 0
    BY <1>3 DEF StartStream, Goto
  <2> QED
    BY <1>1, <2>1, LoopQuiet, WrittenStart DEF StreamInv
<1>4. CASE Started
  <2>1. at = "starting" /\ at' = "read" /\ UNCHANGED <<data, loops>>
    BY <1>4 DEF Started, Goto
  <2> QED
    BY <1>1, <1>4, <2>1, LoopQuiet, WrittenStarted DEF StreamInv
<1>5. CASE StartedDemo
  <2>1. /\ at = "start" /\ at' = "read" /\ UNCHANGED <<data, loops, written>>
        /\ device'.session = device.session + 1 /\ device'.next = 0
    BY <1>5 DEF StartedDemo, Goto
  <2> QED
    BY <1>1, <2>1, LoopQuiet, WrittenStart DEF StreamInv
<1>6. CASE Read
  BY <1>1, <1>6, LoopRead, WrittenRead DEF StreamInv
<1>7. CASE ReadFails
  BY <1>7, StreamQuiet DEF ReadFails, Goto
<1>8. CASE Retry
  BY <1>8, StreamQuiet DEF Retry, Goto
<1>9. CASE Group
  <2>1. /\ Unpublished' = Unpublished /\ (Running' => Running /\ UNCHANGED stream)
        /\ UNCHANGED <<device, written>>
    BY <1>9 DEF Group, Unpublished, Running
  <2> QED
    BY <1>1, <1>9, <2>1, LoopGroup, WrittenQuiet DEF StreamInv
<1>10. CASE Publish
  BY <1>1, <1>10, LoopPublish, WrittenPublish, CompletePublish DEF StreamInv
<1>11. CASE Accept
  BY <1>11, StreamQuiet DEF Accept, Goto
<1>12. CASE UNCHANGED sampleVars
  BY <1>12, StreamQuiet DEF sampleVars, worker
<1> QED
  BY <1>2, <1>3, <1>4, <1>5, <1>6, <1>7, <1>8, <1>9, <1>10, <1>11, <1>12
  DEF Next, SampleSteps, vars

LEMMA StreamAlways ==
    ASSUME ScansFit
    PROVE  Spec => []StreamInv
<1>1. Init => StreamInv
  BY StreamInit
<1>2. StreamInv /\ [Next]_vars => StreamInv'
  BY StreamStep
<1> QED
  BY <1>1, <1>2, PTL DEF Spec

\* The stamps of one stream grow with its scans.
Increases(a, b) ==
    IF a.value.session = b.value.session /\ a.value.scan = b.value.scan
    THEN a.stamp = b.stamp
    ELSE a.stamp < b.stamp

LEMMA StampsGrow ==
    ASSUME ClockInv, NEW a \in Stamped, NEW b \in Stamped,
           StampedRight(a), StampedRight(b)
    PROVE  /\ a.value.scan < b.value.scan => a.stamp < b.stamp
           /\ a.value.scan = b.value.scan => a.stamp = b.stamp
           /\ stream_start <= b.stamp
<1>1. a.value.scan \in Nat /\ b.value.scan \in Nat
  BY DEF Stamped, Samples
<1>2. stream_start \in Nat /\ scan_rate \in Nat \ {0}
  BY ClockKnown
<1>3. /\ a.value.scan * scan_rate \in Nat /\ b.value.scan * scan_rate \in Nat
      /\ a.value.scan < b.value.scan =>
            a.value.scan * scan_rate + scan_rate <= b.value.scan * scan_rate
  BY <1>1, <1>2, ProductGrows, ProductMonotone
<1> QED
  BY <1>2, <1>3 DEF StampedRight

\* No stamp is further ahead than LJM_eStreamStart took.
LEMMA StampsInReach ==
    ASSUME StreamInv, PastInv, at = "read", NEW c \in Channels, NEW i \in DOMAIN written[c]
    PROVE  written[c][i].stamp < clock + Latency
<1> DEFINE e == written[c][i]
<1>1. /\ e.stamp \in Int /\ e.value.scan \in Nat
      /\ e.value.session \in 1..device.session
  BY WrittenKnown DEF StreamInv, WrittenInv
<1>2. /\ clock \in Nat /\ stream_start \in Nat /\ device.start \in Nat /\ device.next \in Nat
      /\ scan_rate \in Nat \ {0} /\ device.session \in Nat /\ Latency \in Nat
      /\ stream_start <= clock
  BY ClockKnown, ConstantsKnown DEF StreamInv, ClockInv
<1>3. CASE e.value.session = device.session
  <2>1. e.value.scan < device.next /\ e.stamp = stream_start + e.value.scan * scan_rate
    BY <1>2, <1>3 DEF StreamInv, WrittenInv, Running, StampedRight, Unpublished
  <2>2. /\ scan_rate = device.period /\ stream_start - device.start \in 0..Latency
        /\ device.start + device.next * device.period <= clock
    BY DEF StreamInv, ClockInv, Running
  <2>3. /\ e.value.scan * scan_rate + scan_rate <= device.next * scan_rate
        /\ e.value.scan * scan_rate \in Nat /\ device.next * scan_rate \in Nat
    BY <1>1, <1>2, <2>1, ProductMonotone, ProductGrows
  <2> QED
    BY <1>2, <2>1, <2>2, <2>3
<1>4. CASE e.value.session # device.session
  <2>1. e.value.session < device.session
    BY <1>1, <1>2, <1>4
  <2>2. e.stamp < stream_start
    BY <2>1 DEF PastInv, Running
  <2> QED
    BY <1>1, <1>2, <2>2
<1> QED
  BY <1>3, <1>4

LEMMA PastStep ==
    ASSUME PauseCoversStart, StreamInv, PastInv, [Next]_vars
    PROVE  PastInv'
<1>1. ASSUME NEW c \in Channels, NEW i \in DOMAIN written[c]
      PROVE  /\ written[c][i].stamp \in Int
             /\ written[c][i].value.session \in 1..device.session
  BY WrittenKnown DEF StreamInv, WrittenInv
<1>2. /\ clock \in Nat /\ since \in Nat /\ stream_start \in Nat /\ device.session \in Nat
      /\ Latency \in Nat /\ Pause \in Nat /\ Latency <= Pause
  BY ClockKnown, ConstantsKnown DEF StreamInv, PauseCoversStart
<1>3. CASE Tick
  <2>1. clock' = clock + 1 /\ UNCHANGED <<at, since, stream_start, device, written>>
    BY <1>3 DEF Tick, worker, stream
  <2> QED
    BY <1>1, <1>2, <2>1 DEF PastInv, Running
<1>4. CASE StartStream
  <2>1. at = "start" /\ at' = "starting" /\ UNCHANGED <<clock, written>>
    BY <1>4 DEF StartStream, Goto
  <2> QED
    BY <2>1 DEF PastInv, Running
<1>5. CASE Started
  <2>1. at = "starting" /\ at' = "read" /\ stream_start' = clock /\ UNCHANGED <<clock, written>>
    BY <1>5 DEF Started, Goto
  <2> QED
    BY <2>1 DEF PastInv, Running
<1>6. CASE StartedDemo
  <2>1. at = "start" /\ at' = "read" /\ stream_start' = clock /\ UNCHANGED <<clock, written>>
    BY <1>6 DEF StartedDemo, Goto
  <2> QED
    BY <2>1 DEF PastInv, Running
<1>7. CASE Read
  <2>1. /\ at = "read" /\ at' = "publish" /\ device'.session = device.session
        /\ UNCHANGED <<stream_start, written>>
    BY <1>7 DEF Read, Goto, StreamInv, ClockInv, Streaming
  <2> QED
    BY <2>1 DEF PastInv, Running
<1>8. CASE ReadFails
  <2>1. at = "read" /\ at' = "pause" /\ since' = clock /\ UNCHANGED written
    BY <1>8 DEF ReadFails, Goto
  <2> QED
    BY <2>1, StampsInReach DEF PastInv, Running
<1>9. CASE Retry
  <2>1. /\ at = "pause" /\ at' = "start" /\ clock >= since + Pause
        /\ UNCHANGED <<clock, written>>
    BY <1>9 DEF Retry, Goto
  <2>2. ASSUME NEW c \in Channels, NEW i \in DOMAIN written[c]
        PROVE  written[c][i].stamp < clock
    <3>1. written[c][i].stamp < since + Latency
      BY <2>1 DEF PastInv
    <3> QED
      BY <1>1, <1>2, <2>1, <3>1
  <2> QED
    BY <2>1, <2>2 DEF PastInv, Running
<1>10. CASE Group
  <2>1. UNCHANGED <<clock, at, since, stream_start, device, written>>
    BY <1>10 DEF Group, stream
  <2> QED
    BY <2>1 DEF PastInv, Running
<1>11. CASE Publish
  <2>1. /\ at = "publish" /\ at' = "read" /\ UNCHANGED <<stream_start, device>>
    BY <1>11 DEF Publish, Goto, stream
  <2>2. ASSUME NEW c \in Channels, NEW i \in DOMAIN written'[c],
               written'[c][i].value.session < device.session
        PROVE  written'[c][i].stamp < stream_start
    <3>1. /\ i \in DOMAIN written[c] => written'[c][i] = written[c][i]
          /\ \/ i \in DOMAIN written[c]
             \/ \E j \in DOMAIN grouped[c] : i = Len(written[c]) + j
          /\ \A j \in DOMAIN grouped[c] : written'[c][Len(written[c]) + j] = grouped[c][j]
      BY <1>11, PublishKnown DEF StreamInv
    <3>2. ASSUME NEW j \in DOMAIN grouped[c]
          PROVE  grouped[c][j].value.session = device.session
      BY DEF StreamInv, GroupedInv
    <3>3. i \in DOMAIN written[c]
      BY <1>2, <2>2, <3>1, <3>2
    <3> QED
      BY <2>1, <2>2, <3>1, <3>3 DEF PastInv, Running
  <2> QED
    BY <2>1, <2>2 DEF PastInv, Running
\* Before the first stream nothing is written.
<1>12. CASE Accept
  <2>1. at = "config" /\ at' = "start" /\ UNCHANGED <<clock, written>>
    BY <1>12 DEF Accept, Goto
  <2>2. device.session = 0
    BY <2>1 DEF StreamInv, ClockInv
  <2>3. \A c \in Channels : DOMAIN written[c] = {}
    BY <1>1, <2>2
  <2> QED
    BY <2>1, <2>3 DEF PastInv
<1>13. CASE UNCHANGED sampleVars
  BY <1>13 DEF sampleVars, worker, stream, PastInv, Running
<1> QED
  BY <1>3, <1>4, <1>5, <1>6, <1>7, <1>8, <1>9, <1>10, <1>11, <1>12, <1>13
  DEF Next, SampleSteps, vars

LEMMA IncreaseRead ==
    StampsIncrease <=>
        \A c \in Channels : \A i, j \in DOMAIN written[c] :
            i < j => Increases(written[c][i], written[c][j])
BY DEF StampsIncrease, Increases

LEMMA IncreaseReadNext ==
    StampsIncrease' <=>
        \A c \in Channels : \A i, j \in DOMAIN written'[c] :
            i < j => Increases(written'[c][i], written'[c][j])
BY DEF StampsIncrease, Increases

\* What the bulk writes add is later than all there was.
LEMMA IncreasePublish ==
    ASSUME StreamInv, PastInv, StampsIncrease, Publish
    PROVE  StampsIncrease'
<1>1. at = "publish" /\ Running /\ First \in Int /\ First = device.next - Unpublished
  BY PublishKnown DEF StreamInv, Running
<1>2. \A c \in Channels :
         /\ Len(written[c]) \in Nat
         /\ DOMAIN written[c] = 1..Len(written[c])
         /\ DOMAIN grouped[c] = 1..Len(grouped[c])
         /\ \A i \in DOMAIN written[c] :
               i \in DOMAIN written'[c] /\ written'[c][i] = written[c][i]
         /\ \A i \in DOMAIN grouped[c] :
               /\ Len(written[c]) + i \in DOMAIN written'[c]
               /\ written'[c][Len(written[c]) + i] = grouped[c][i]
         /\ \A i \in DOMAIN written'[c] :
               \/ i \in DOMAIN written[c]
               \/ \E j \in DOMAIN grouped[c] : i = Len(written[c]) + j
  BY PublishKnown DEF StreamInv
<1>3. ASSUME NEW c \in Channels, NEW k \in DOMAIN grouped[c]
      PROVE  /\ grouped[c][k] \in Stamped /\ StampedRight(grouped[c][k])
             /\ grouped[c][k].value.session = device.session
             /\ grouped[c][k].value.scan \in First..device.next - 1
             /\ grouped[c][k].stamp \in Int
  <2>1. grouped[c] \in Seq(Stamped)
    BY DEF StreamInv, LoopInv
  <2>2. grouped[c][k] \in Stamped
    BY <2>1, LenProperties, ElementOfSeq
  <2> QED
    BY <2>2 DEF StreamInv, GroupedInv, Stamped
<1>4. ClockInv /\ device.session \in Nat /\ stream_start \in Nat /\ device.next \in Nat
  BY ClockKnown DEF StreamInv
<1> SUFFICES ASSUME NEW c \in Channels, NEW i \in DOMAIN written'[c],
                    NEW j \in DOMAIN written'[c], i < j
             PROVE  Increases(written'[c][i], written'[c][j])
  BY IncreaseReadNext
<1>5. CASE j \in DOMAIN written[c]
  <2>1. i \in DOMAIN written[c]
    BY <1>2, <1>5
  <2> QED
    BY <1>2, <1>5, <2>1, IncreaseRead
<1>6. CASE \E k \in DOMAIN grouped[c] : j = Len(written[c]) + k
  <2>1. PICK k \in DOMAIN grouped[c] : j = Len(written[c]) + k
    BY <1>6
  <2> DEFINE b == grouped[c][k]
  <2>2. /\ b \in Stamped /\ StampedRight(b) /\ b.value.session = device.session
        /\ b.value.scan \in First..device.next - 1 /\ b.stamp \in Int
        /\ written'[c][j] = b
    BY <1>2, <1>3, <2>1
  <2>3. CASE i \in DOMAIN written[c]
    <3> DEFINE a == written[c][i]
    <3>1. /\ a \in Stamped /\ a.stamp \in Int /\ a.value.scan \in Nat
          /\ a.value.session \in 1..device.session
          /\ a.value.session = device.session => a.value.scan < First /\ StampedRight(a)
          /\ written'[c][i] = a
      BY <1>1, <1>2, <2>3, WrittenKnown DEF StreamInv, WrittenInv
    <3> HIDE DEF a, b
    <3>2. CASE a.value.session = device.session
      <4>1. a.value.scan < b.value.scan
        BY <1>1, <1>4, <2>2, <3>1, <3>2
      <4>2. a.stamp < b.stamp
        BY <1>4, <2>2, <3>1, <3>2, <4>1, StampsGrow
      <4>3. a.value.scan # b.value.scan
        BY <1>1, <2>2, <3>1, <4>1
      <4> QED
        BY <2>2, <3>1, <4>2, <4>3 DEF Increases
    <3>3. CASE a.value.session # device.session
      <4>1. a.value.session < device.session
        BY <1>4, <3>1, <3>3
      <4>2. a.stamp < stream_start
        BY <1>1, <2>3, <4>1 DEF PastInv, a
      <4>3. stream_start <= b.stamp
        BY <1>4, <2>2, StampsGrow
      <4>4. a.stamp < b.stamp
        BY <1>4, <2>2, <3>1, <4>2, <4>3
      <4> QED
        BY <2>2, <3>1, <3>3, <4>4 DEF Increases
    <3> QED
      BY <3>2, <3>3
  <2>4. CASE \E l \in DOMAIN grouped[c] : i = Len(written[c]) + l
    <3>1. PICK l \in DOMAIN grouped[c] : i = Len(written[c]) + l
      BY <2>4
    <3> DEFINE a == grouped[c][l]
    <3>2. /\ a \in Stamped /\ StampedRight(a) /\ a.value.session = device.session
          /\ written'[c][i] = a /\ a.value.scan \in First..device.next - 1
      BY <1>2, <1>3, <3>1
    <3>3. l < k
      BY <1>2, <2>1, <3>1
    <3>4. Earlier(a.value, b.value)
      BY <3>3 DEF StreamInv, GroupedInv, InOrder
    <3> HIDE DEF a, b
    <3>5. /\ a.value.scan < b.value.scan => a.stamp < b.stamp
          /\ a.value.scan = b.value.scan => a.stamp = b.stamp
      BY <1>4, <2>2, <3>2, StampsGrow
    <3>6. a.value.scan < b.value.scan \/ a.value.scan = b.value.scan
      BY <1>4, <2>2, <3>2, <3>4 DEF Earlier
    <3>7. a.value.scan \in Int /\ b.value.scan \in Int
      BY <1>1, <1>4, <2>2, <3>2
    <3> QED
      BY <2>2, <3>2, <3>5, <3>6, <3>7 DEF Increases
  <2> QED
    BY <1>2, <2>3, <2>4
<1> QED
  BY <1>2, <1>5, <1>6

LEMMA IncreaseStep ==
    ASSUME StreamInv, PastInv, StampsIncrease, [Next]_vars
    PROVE  StampsIncrease'
<1>1. CASE Publish
  BY <1>1, IncreasePublish
<1>2. CASE ~Publish
  <2>1. UNCHANGED written
    BY <1>2 DEF Next, SampleSteps, vars, sampleVars, Tick, StartStream, Started,
                StartedDemo, Read, ReadFails, Retry, Group, Accept
  <2> QED
    BY <2>1 DEF StampsIncrease
<1> QED
  BY <1>1, <1>2

--------------------------------------------------------------------------------
(* The theorems.                                                              *)

LEMMA MappingTyped ==
    ASSUME ConfigInv, IntsFit
    PROVE  MappingTypeOK
<1>1. ParseInv /\ KnownInv /\ AppliedInv
  BY DEF ConfigInv
<1>2. /\ Len(arguments) \in Nat /\ DOMAIN arguments = 1..Len(arguments)
      /\ \A i \in 1..Len(arguments) : arguments[i] \in AnyMapping
  BY <1>1, ArgumentsKnown DEF ParseInv
<1>3. ASSUME NEW m \in AnyMapping
      PROVE  m.register \in Int
  BY AnalogKnown, DigitalKnown DEF AnyMapping, Malformed
<1>4. ASSUME NEW i \in DOMAIN known
      PROVE  i \in Nat /\ known[i] \in AllSettings
  <2>1. PICK j \in Parsed : /\ arguments[j].type = "analog" /\ i \in Nat
                            /\ known[i] = Wanted(arguments[j])
    BY <1>1 DEF KnownInv
  <2>2. j \in 1..Len(arguments)
    BY <1>1, <1>2 DEF Parsed, ParseInv
  <2>3. arguments[j] \in Analog
    BY <1>2, <2>1, <2>2, DigitalKnown DEF AnyMapping, Malformed
  <2>4. Wanted(arguments[j]) \in AllSettings
    BY <2>3, AnalogKnown DEF Wanted, AllSettings
  <2> QED
    BY <2>1, <2>4
<1> QED
  BY <1>1, <1>2, <1>3, <1>4 DEF MappingTypeOK, ParseInv, AppliedInv

LEMMA SamplesTyped ==
    ASSUME StreamInv, MappingTypeOK
    PROVE  TypeOK
<1>1. ClockInv /\ LoopInv /\ WrittenInv
  BY DEF StreamInv
<1>2. clock \in 0..MaxClock /\ since \in 0..MaxClock /\ stream_start \in 0..MaxClock
  BY <1>1, ConstantsKnown DEF ClockInv
<1> QED
  BY <1>1, <1>2 DEF TypeOK, ClockInv, LoopInv, WrittenInv

LEMMA StreamImpliesWritten == StreamInv => EverySampleWritten
<1> SUFFICES ASSUME StreamInv PROVE EverySampleWritten
  OBVIOUS
<1>1. WrittenInv /\ CompleteInv /\ ClockInv
  BY DEF StreamInv
<1>2. ASSUME NEW m \in DOMAIN Mappings, NEW s \in 1..device.session
      PROVE  LET mine == PlacesOf(s, m) scans == {ScanAt(m, i) : i \in mine}
             IN  /\ \A i, j \in mine : i < j => ScanAt(m, i) < ScanAt(m, j)
                 /\ \A k \in scans : 0..k \subseteq scans
                 /\ s = device.session => scans = 0..device.next - Unpublished - 1
  <2> DEFINE mine == PlacesOf(s, m)
             scans == {ScanAt(m, i) : i \in mine}
  <2>1. ASSUME NEW i \in mine
        PROVE  /\ Mappings[m] \in Channels /\ i \in DOMAIN written[Mappings[m]]
               /\ written[Mappings[m]][i].value.session = s
               /\ written[Mappings[m]][i].value.mapping = m
               /\ written[Mappings[m]][i].value.scan = ScanAt(m, i)
               /\ ScanAt(m, i) \in Nat /\ m \in Nat /\ s \in Nat
    <3>1. Mappings[m] \in Channels /\ i \in DOMAIN written[Mappings[m]]
      BY ConstantsKnown DEF PlacesOf
    <3>2. ScanAt(m, i) \in Nat
      BY <1>1, <3>1, WrittenKnown DEF ScanAt
    <3>3. m \in Nat /\ s \in Nat
      BY ConstantsKnown
    <3> QED
      BY <3>1, <3>2, <3>3 DEF PlacesOf, ScanAt
  <2>2. ASSUME NEW i \in mine, NEW j \in mine, i < j
        PROVE  ScanAt(m, i) < ScanAt(m, j)
    <3>1. Earlier(written[Mappings[m]][i].value, written[Mappings[m]][j].value)
      BY <1>1, <2>1, <2>2 DEF WrittenInv, InOrder
    <3> QED
      BY <2>1, <3>1 DEF Earlier
  <2>3. ASSUME NEW i \in mine, NEW k \in 0..ScanAt(m, i)
        PROVE  \E j \in mine : ScanAt(m, j) = k
    BY <1>1 DEF CompleteInv
  <2>4. ASSUME s = device.session, NEW k \in 0..device.next - Unpublished - 1
        PROVE  \E j \in mine : ScanAt(m, j) = k
    BY <1>1, <2>4 DEF CompleteInv
  <2>5. ASSUME s = device.session, NEW i \in mine
        PROVE  ScanAt(m, i) \in 0..device.next - Unpublished - 1
    <3>1. ScanAt(m, i) < device.next - Unpublished
      BY <1>1, <2>1, <2>5 DEF WrittenInv
    <3>2. device.next - Unpublished \in Int
      BY <1>1, ClockKnown, ConstantsKnown DEF Unpublished
    <3> QED
      BY <2>1, <3>1, <3>2
  <2> HIDE DEF mine
  <2>6. \A k \in scans : 0..k \subseteq scans
    BY <2>3
  <2>7. s = device.session => scans = 0..device.next - Unpublished - 1
    BY <2>4, <2>5
  <2> QED
    BY <2>2, <2>6, <2>7 DEF mine
<1>3. \A c \in Channels : \A i \in DOMAIN written[c] :
         Mappings[written[c][i].value.mapping] = c
  BY <1>1 DEF WrittenInv
<1> QED
  BY <1>2, <1>3 DEF EverySampleWritten

LEMMA StreamImpliesAccurate == StreamInv => StampsAccurate
BY DEF StreamInv, WrittenInv, StampsAccurate, Accurate

LEMMA IncreaseInit == Init => PastInv /\ StampsIncrease
<1> SUFFICES ASSUME Init PROVE PastInv /\ StampsIncrease
  OBVIOUS
<1>1. \A c \in Channels : DOMAIN written[c] = {}
  BY DEF Init, Nothing
<1> QED
  BY <1>1 DEF PastInv, StampsIncrease

\* runStreamWorker's buffer, its loops and its bulk writes: whatever the mappings
\* and the scans of a read are, every sample is written once, to its own channel and
\* in the order it was taken, over any number of reconnects.
THEOREM SamplesKept ==
    ASSUME IntsFit, ScansFit
    PROVE  Spec => []SamplesInv
<1>1. StreamInv /\ ConfigInv => SamplesInv
  BY MappingTyped, SamplesTyped, StreamImpliesWritten DEF SamplesInv
<1> QED
  BY <1>1, ConfigAlways, StreamAlways, PTL

\* scan_number / scan_rate with the rate LJM accepted and the count that starts anew
\* with the stream: a timestamp is never before its sample, and never later than
\* LJM_eStreamStart took, while the scan number is one of an int.
THEOREM StampsTrue ==
    ASSUME ScansFit
    PROVE  Spec => []StampsAccurate
BY StreamAlways, StreamImpliesAccurate, PTL

\* The timestamps of a channel never run backwards, not even where a stream ends and
\* the next begins, if LJM_eStreamStart takes no longer than the second the worker
\* waits after an error.
THEOREM StampsOrdered ==
    ASSUME ScansFit, PauseCoversStart
    PROVE  Spec => []StampsIncrease
<1>1. Init => PastInv /\ StampsIncrease
  BY IncreaseInit
<1>2. StreamInv /\ (PastInv /\ StampsIncrease) /\ [Next]_vars => (PastInv /\ StampsIncrease)'
  BY PastStep, IncreaseStep
<1> QED
  BY <1>1, <1>2, StreamAlways, PTL DEF Spec
================================================================================
