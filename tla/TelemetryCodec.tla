--------------------------- MODULE TelemetryCodec ---------------------------
(***************************************************************************)
(* The host's codec of the firmware's telemetry lines (telemetry.py).  A   *)
(* line is its tag and the tokens after it; a token is what Python's       *)
(* parsers see of it: an integer, a decimal, "nan", "ovf", or text neither *)
(* parses.  A number is a whole part and the millionths above it, and a    *)
(* float field is printed to its own number of decimals.  A record maps    *)
(* each field to the values of its components.                             *)
(***************************************************************************)
EXTENDS Integers, Sequences, FiniteSets, SequencesExt, Angles

Field(name, type, decimals, optional) ==
  [name |-> name, type |-> type, decimals |-> decimals, optional |-> optional]
Fields(type, decimals, optional, names) ==
  [i \in DOMAIN names |-> Field(names[i], type, decimals, optional)]

FusionRecord ==
  Fields("int", 0, FALSE, <<"timestamp_ms">>) \o
  Fields("float", 3, FALSE, <<"heading_deg", "roll_deg", "pitch_deg",
    "heading_sigma_deg", "roll_sigma_deg", "pitch_sigma_deg">>) \o
  Fields("float", 4, TRUE, <<"gyro_bias_dps", "gyro_bias_sigma_dps",
    "gyro_bias_x_dps", "gyro_bias_x_sigma_dps",
    "gyro_bias_y_dps", "gyro_bias_y_sigma_dps">>) \o
  Fields("float", 3, TRUE, <<"mag_offset_deg", "mag_offset_sigma_deg">>) \o
  Fields("int", 0, TRUE, <<"gate_rejects", "mag_gate_rejects">>)

ImuRecord ==
  <<Field("timestamp_ms", "int", 0, FALSE), Field("orientation", "quat", 5, FALSE),
    Field("angular_velocity_rad_s", "vec3", 5, FALSE), Field("accel_ms2", "vec3", 4, FALSE)>>

MemsRecord ==
  <<Field("timestamp_ms", "int", 0, FALSE), Field("accel_ms2", "vec3", 4, FALSE),
    Field("angular_velocity_rad_s", "vec3", 5, FALSE),
    Field("magnetic_field_au", "vec3", 5, FALSE)>>

GnssRecord ==
  <<Field("timestamp_ms", "int", 0, FALSE), Field("heading_deg", "float", 3, FALSE),
    Field("heading_sigma_deg", "float", 3, FALSE), Field("valid", "bool", 0, FALSE),
    Field("mode", "int", 0, TRUE), Field("error", "int", 0, TRUE)>>

Schema == [F |-> FusionRecord, I |-> ImuRecord, M |-> MemsRecord, G |-> GnssRecord]

Width(field) == CASE field.type = "vec3" -> 3 [] field.type = "quat" -> 4 [] OTHER -> 1
\* The sum of the widths: a token each, two more of a vec3, three of a quat.
OfType(fields, type) == {i \in DOMAIN fields : fields[i].type = type}
TotalWidth(fields) ==
  Len(fields) + 2 * Cardinality(OfType(fields, "vec3")) + 3 * Cardinality(OfType(fields, "quat"))

\* Accepted token counts, the tag included: with or without the optional tail.
Widths(fields) ==
  {1 + TotalWidth(fields),
   1 + TotalWidth(SelectSeq(fields, LAMBDA field : ~field.optional))}

-----------------------------------------------------------------------------
(* Tokens and values. *)

Million == 1000000
Decimal(v, micro) == [lit |-> "real", v |-> v, micro |-> micro]
RealToken(n) == Decimal(n, 0)
IntToken(n)  == [lit |-> "int", v |-> n, micro |-> 0]
NanToken == [lit |-> "nan", v |-> 0, micro |-> 0]
OvfToken == [lit |-> "ovf", v |-> 0, micro |-> 0]
Junk     == [lit |-> "junk", v |-> 0, micro |-> 0]

Real(v, micro) == [k |-> "num", v |-> v, micro |-> micro]
Number(n) == Real(n, 0)
NanValue  == [k |-> "nan", v |-> 0, micro |-> 0]
PosInf    == [k |-> "inf", v |-> 0, micro |-> 0]
NegInf    == [k |-> "-inf", v |-> 0, micro |-> 0]

\* int() and float() raise ValueError; a flag is compared with "1".
TokenParses(type, token) ==
  CASE type = "int"  -> token.lit = "int"
    [] type = "bool" -> TRUE
    [] OTHER         -> token.lit # "junk"

\* "ovf" has no sign: it is read as +inf.
ParseToken(type, token) ==
  CASE type = "bool"      -> Number(IF token = IntToken(1) THEN 1 ELSE 0)
    [] token.lit = "nan"  -> NanValue
    [] token.lit = "ovf"  -> PosInf
    [] OTHER              -> Real(token.v, token.micro)

\* The last printed decimal, in millionths.
Grain(field) ==
  CASE field.decimals = 3 -> 1000 [] field.decimals = 4 -> 100 [] OTHER -> 10

\* f"{v:.{prec}f}", halves to the even digit; the last step up carries.
Printed(field, value) ==
  LET micro == Grain(field) * RoundHalfEven(value.micro, Grain(field))
  IN  IF micro < Million THEN Decimal(value.v, micro) ELSE Decimal(value.v + 1, 0)

\* _format_float, and str() of an int or a flag.
FormatValue(field, value) ==
  CASE field.type \in {"int", "bool"} -> IntToken(value.v)
    [] value.k = "nan"               -> NanToken
    [] value.k \in {"inf", "-inf"}   -> OvfToken
    [] OTHER                         -> Printed(field, value)

\* The dataclass defaults of the optional fields.
Default(field) == IF field.type = "int" THEN Number(0) ELSE NanValue

-----------------------------------------------------------------------------

NoRecord   == [type |-> "None", f |-> <<>>]
DiagRecord == [type |-> "Diag", f |-> <<>>]

\* Index of the first token of field i.
At(fields, i) == 1 + TotalWidth(SubSeq(fields, 1, i - 1))

Tokens(fields, i, tokens) ==
  SubSeq(tokens, At(fields, i), At(fields, i) + Width(fields[i]) - 1)

\* Mutated form: only the tag is dispatched on, not the field count.
ParseLineAnyWidth(line) ==
  IF line.tag = "#" THEN DiagRecord
  ELSE IF line.tag \notin DOMAIN Schema THEN NoRecord
  ELSE LET fields  == Schema[line.tag]
           present == {i \in DOMAIN fields : At(fields, i) <= Len(line.tokens)}
           parsed(i) == [c \in DOMAIN Tokens(fields, i, line.tokens) |->
                           ParseToken(fields[i].type, Tokens(fields, i, line.tokens)[c])]
       IN  IF \E i \in present : \E c \in DOMAIN parsed(i) :
                ~TokenParses(fields[i].type, Tokens(fields, i, line.tokens)[c])
             THEN NoRecord
             ELSE [type |-> line.tag,
                   f |-> [name \in {fields[i].name : i \in DOMAIN fields} |->
                            LET i == CHOOSE i \in DOMAIN fields : fields[i].name = name
                            IN  IF i \in present THEN parsed(i)
                                ELSE <<Default(fields[i])>>]]

\* parse_line: None for a blank line, an unknown tag, a wrong field count or a
\* token that does not parse.  An absent optional tail keeps its defaults.
ParseLine(line) ==
  IF line.tag \in DOMAIN Schema /\ 1 + Len(line.tokens) \notin Widths(Schema[line.tag])
    THEN NoRecord
    ELSE ParseLineAnyWidth(line)

\* format_record, of the record types that have a tag.
FormatRecord(record) ==
  LET fields == Schema[record.type]
      unparse(field) == [c \in DOMAIN record.f[field.name] |->
                           FormatValue(field, record.f[field.name][c])]
  IN  [tag |-> record.type,
       tokens |-> FlattenSeq([i \in DOMAIN fields |-> unparse(fields[i])])]

-----------------------------------------------------------------------------
(* Reading a record's fields. *)

Scalar(record, name) == record.f[name][1].v
Stamp(record) == Scalar(record, "timestamp_ms")
HasStamp(record) == record.type \in DOMAIN Schema
=============================================================================
