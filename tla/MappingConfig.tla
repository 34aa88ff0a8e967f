----------------------------- MODULE MappingConfig -----------------------------
(***************************************************************************)
(* The mappings of a stream task on their way to the device: they are      *)
(* parsed and validated one by one (parseStreamMappings), the worker       *)
(* decides on the errors, and the RANGE and NEGATIVE_CH registers are      *)
(* written mapping by mapping (applyAnalogStreamConfigLocked), where every *)
(* write may fail.  What an error says is left out, only which mapping has *)
(* one.  StreamSamples has what the worker does with a list it accepted.   *)
(***************************************************************************)
EXTENDS Integers, Sequences

CONSTANTS
    Registers,      \* the values of "register" tasks are given
    Negatives,      \* of "negative_channel"
    Ranges,         \* of "range", numbers as they are written
    MaxMappings,    \* bound: the longest list of mappings
    IntBits         \* width of int

ASSUME MappingAssumption ==
    /\ Registers \subseteq Int
    /\ Negatives \subseteq Int
    /\ Ranges \subseteq STRING
    /\ MaxMappings \in Nat
    /\ IntBits \in Nat \ {0}

VARIABLES
    arguments,  \* arguments["mappings"]
    next,       \* the mapping parsed next
    resolved,   \* the mappings parsed so far
    errors,     \* the mappings with an error
    known,      \* analog_config_by_register
    phase,      \* parse; range or negative, the register written next; the end
    position,   \* the mapping whose registers are written
    settings    \* RANGE and NEGATIVE_CH of the analog inputs

parsed == <<next, resolved, errors, known>>
mappingVars == <<arguments, parsed, phase, position, settings>>

GND == 199
ValidRanges == {"10", "1", "0.1", "0.01"}

\* An optional number of the json: absent, of another type, or a value.
Optional(values) == {<<"absent">>, <<"text">>} \union {<<"value", v>> : v \in values}
ValueOr(field, default) == IF field[1] = "value" THEN field[2] ELSE default

\* A mapping may be no object with a channel, have a channel that is no path, or
\* have no integer register; then nothing else of it is looked at.  Of a digital
\* one the negative channel and the range are not.
Analog ==
    [defect: {"none"}, type: {"analog"}, register: Registers,
     negative: Optional(Negatives), range: Optional(Ranges)]
Digital ==
    [defect: {"none"}, type: {"digital"}, register: Registers,
     negative: {<<"absent">>}, range: {<<"absent">>}]
Malformed ==
    [defect: {"shape", "path", "register"}, type: {"digital"}, register: {0},
     negative: {<<"absent">>}, range: {<<"absent">>}]

\* get<int>() of a json integer.
Narrow(n) == ((n + 2^(IntBits - 1)) % 2^IntBits) - 2^(IntBits - 1)

\* LJM_NameToAddress: the AIN and DIO names it knows for a T7.
HasAddress(type, register) ==
    register \in (IF type = "digital" THEN 0..22 ELSE 0..254)

--------------------------------------------------------------------------------
(* parseStreamMappings.                                                       *)

\* What makes the parser go on to the next mapping at once.
Skipped(m) ==
    \/ m.defect # "none"
    \/ Narrow(m.register) < 0
    \/ ~HasAddress(m.type, Narrow(m.register))
    \/ m.type = "analog" /\ "text" \in {m.negative[1], m.range[1]}

Resolved(m) ==
    [type |-> m.type, register |-> Narrow(m.register),
     negative |-> Narrow(ValueOr(m.negative, GND)), range |-> ValueOr(m.range, "10")]

\* Faulty: the differential rule reaches beyond the built-in inputs' even ones.
PairedWithNext(r) == r.register \in 0..13 /\ r.negative # GND => r.negative = r.register + 1

\* A built-in input is measured against ground or, if even, against the next one.
PairedInputs(r) ==
    r.register \in 0..13 /\ r.negative # GND =>
        r.register % 2 = 0 /\ r.negative = r.register + 1

\* validateAnalogStreamMapping.
ValidAnalog(r) ==
    /\ r.negative \in 0..253
    /\ r.range \in ValidRanges
    /\ PairedInputs(r)

Settings(r) == [negative |-> r.negative, range |-> r.range]

\* Faulty: of two mappings of one input only the ranges are compared.
ConflictOfRanges(r) ==
    r.register \in DOMAIN known /\ known[r.register].range # r.range

\* An earlier mapping of the same input has other settings.
Conflict(r) == r.register \in DOMAIN known /\ known[r.register] # Settings(r)

Remember(r) ==
    [i \in DOMAIN known \union {r.register} |->
        IF i \in DOMAIN known THEN known[i] ELSE Settings(r)]

Parsing == phase = "parse" /\ next <= Len(arguments)

ParseSkip ==
    /\ Parsing
    /\ Skipped(arguments[next])
    /\ errors' = errors \union {next}
    /\ next' = next + 1
    /\ UNCHANGED <<arguments, resolved, known, phase, position, settings>>

ParseDigital ==
    /\ Parsing
    /\ ~Skipped(arguments[next])
    /\ arguments[next].type = "digital"
    /\ resolved' = Append(resolved, Resolved(arguments[next]))
    /\ next' = next + 1
    /\ UNCHANGED <<arguments, errors, known, phase, position, settings>>

\* A mapping with an error of its own is remembered and appended all the same.
ParseAnalog ==
    /\ Parsing
    /\ ~Skipped(arguments[next])
    /\ arguments[next].type = "analog"
    /\ LET r == Resolved(arguments[next])
       IN  /\ resolved' = Append(resolved, r)
           /\ errors' = IF ValidAnalog(r) /\ ~Conflict(r) THEN errors
                                                          ELSE errors \union {next}
           /\ known' = Remember(r)
    /\ next' = next + 1
    /\ UNCHANGED <<arguments, phase, position, settings>>

\* The worker asks for errors first, then for a mapping.
Decide ==
    /\ phase = "parse" /\ next > Len(arguments)
    /\ phase' = IF errors # {} \/ resolved = <<>> THEN "refused" ELSE "range"
    /\ UNCHANGED <<arguments, parsed, position, settings>>

--------------------------------------------------------------------------------
(* applyAnalogStreamConfigLocked.                                             *)

Current == resolved[position]
Applying(register, type) ==
    phase = register /\ position <= Len(resolved) /\ Current.type = type

SkipDigital ==
    /\ Applying("range", "digital")
    /\ position' = position + 1
    /\ UNCHANGED <<arguments, parsed, phase, settings>>

WriteRange ==
    /\ Applying("range", "analog")
    /\ settings' = [settings EXCEPT ![Current.register].range = Current.range]
    /\ phase' = "negative"
    /\ UNCHANGED <<arguments, parsed, position>>

WriteNegativeChannel ==
    /\ Applying("negative", "analog")
    /\ settings' = [settings EXCEPT ![Current.register].negative = Current.negative]
    /\ phase' = "range"
    /\ position' = position + 1
    /\ UNCHANGED <<arguments, parsed>>

\* LJM_eWriteName fails: the rest of the registers is not written.
WriteFails ==
    /\ Applying("range", "analog") \/ Applying("negative", "analog")
    /\ phase' = "failed"
    /\ UNCHANGED <<arguments, parsed, position, settings>>

Applied ==
    /\ phase = "range" /\ position > Len(resolved)
    /\ phase' = "applied"
    /\ UNCHANGED <<arguments, parsed, position, settings>>

--------------------------------------------------------------------------------
TaskArguments ==
    UNION {[1..n -> Analog \union Digital \union Malformed] : n \in 0..MaxMappings}

\* The ranges that are asked for, by name or by default.
AllRanges == Ranges \union {"10"}
AllSettings == [negative: Int, range: AllRanges]
ResolvedMappings ==
    [type: {"analog", "digital"}, register: Nat, negative: Int, range: AllRanges]

MappingTypeOK ==
    /\ \A i \in DOMAIN arguments : arguments[i].register \in Int
    /\ next \in 1..Len(arguments) + 1
    /\ resolved \in Seq(ResolvedMappings)
    /\ errors \subseteq 1..Len(arguments)
    /\ \A i \in DOMAIN known : i \in Nat /\ known[i] \in AllSettings
    /\ phase \in {"parse", "refused", "range", "negative", "failed", "applied"}
    /\ position \in 1..Len(resolved) + 1
    /\ \A i \in DOMAIN settings : settings[i] \in AllSettings

MappingInit ==
    /\ arguments \in TaskArguments
    /\ next = 1
    /\ resolved = <<>>
    /\ errors = {}
    /\ known = [i \in {} |-> 0]
    /\ phase = "parse"
    /\ position = 1
    /\ settings = [i \in {Narrow(n) : n \in Registers} |-> [negative |-> GND, range |-> "10"]]

MappingNext ==
    \/ ParseSkip \/ ParseDigital \/ ParseAnalog \/ Decide
    \/ SkipDigital \/ WriteRange \/ WriteNegativeChannel \/ WriteFails \/ Applied

--------------------------------------------------------------------------------
(***************************************************************************)
(* Properties.                                                             *)
(***************************************************************************)

\* What a mapping asks for.
Wanted(m) == [negative |-> ValueOr(m.negative, GND), range |-> ValueOr(m.range, "10")]

ValidMapping(m) ==
    /\ m.defect = "none"
    /\ HasAddress(m.type, m.register)
    /\ m.type = "analog" =>
          /\ m.negative[1] # "text" /\ Wanted(m).negative \in 0..253
          /\ m.range[1] # "text" /\ Wanted(m).range \in ValidRanges
          /\ \/ m.register > 13
             \/ Wanted(m).negative = GND
             \/ m.register % 2 = 0 /\ Wanted(m).negative = m.register + 1

\* A list of mappings a stream may be started with: each is valid, and no two ask
\* for different settings of one input.
ValidConfig ==
    /\ arguments # <<>>
    /\ \A i \in DOMAIN arguments : ValidMapping(arguments[i])
    /\ \A i, j \in DOMAIN arguments :
          /\ arguments[i].type = "analog" /\ arguments[j].type = "analog"
          /\ arguments[i].register = arguments[j].register
          => Wanted(arguments[i]) = Wanted(arguments[j])

\* README.md:150: the mappings are validated before anything is written to the
\* device; the pass over them refuses exactly the lists that are not valid,
\* whichever mapping is at fault and however the others distract from it.
RefusedIffInvalid ==
    phase # "parse" => (phase = "refused" <=> ~ValidConfig)

\* When the stream is started every analog mapping finds its own settings in the
\* device, also the one whose input another mapping wrote later.
EveryMappingApplied ==
    phase = "applied" =>
        \A i \in DOMAIN arguments :
            arguments[i].type = "analog" =>
                settings[arguments[i].register] = Wanted(arguments[i])
================================================================================
