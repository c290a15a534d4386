----------------------------- MODULE LiveViewProofs -----------------------------
(***************************************************************************)
(* Proofs about LiveView, for every number of sessions, lines and panels,  *)
(* every history length and every window.                                  *)
(*                                                                         *)
(* First what parse_line makes of the lines a source hands over, since the *)
(* invariant speaks of the records a reader holds; then what a record does *)
(* to a MonitorState, column by column; then the threads and their lock,   *)
(* the capture, that the scroll panels implement StreamView, and that the  *)
(* dead reckoner's heading is its anchor and every turn since.             *)
(***************************************************************************)
EXTENDS LiveView, Induction, SequenceTheorems, FiniteSetTheorems, TLAPS

-----------------------------------------------------------------------------
(* What parse_line makes of the model's lines. *)

\* Field k of a line that parses, and present in it.
IsField(line, k) ==
  /\ line.tag \in {"F", "I", "M", "G"} /\ k \in DOMAIN Schema[line.tag]
  /\ \A j \in DOMAIN Schema[line.tag] :
       Schema[line.tag][j].name = Schema[line.tag][k].name => j = k
  /\ At(Schema[line.tag], k) <= Len(line.tokens)
  /\ ParseLine(line) # NoRecord

\* A record holds each such field, token by token.
ReadAs(line, k, fields, tokens) ==
  ParseLine(line).f[fields[k].name] =
    [c \in DOMAIN Tokens(fields, k, tokens) |->
       ParseToken(fields[k].type, Tokens(fields, k, tokens)[c])]

LEMMA ParsedField ==
  ASSUME NEW line, NEW k, IsField(line, k)
  PROVE  ParseLine(line).type = line.tag /\ ReadAs(line, k, Schema[line.tag], line.tokens)
<1> USE DEF IsField
<1> DEFINE fields == Schema[line.tag]
           present == {i \in DOMAIN fields : At(fields, i) <= Len(line.tokens)}
           parsed(i) == [c \in DOMAIN Tokens(fields, i, line.tokens) |->
                           ParseToken(fields[i].type, Tokens(fields, i, line.tokens)[c])]
           named(name) == CHOOSE i \in DOMAIN fields : fields[i].name = name
           names == {fields[i].name : i \in DOMAIN fields}
           value(name) == IF named(name) \in present THEN parsed(named(name))
                          ELSE <<Default(fields[named(name)])>>
           record == [type |-> line.tag, f |-> [name \in names |-> value(name)]]
<1>1. line.tag # "#" /\ line.tag \in DOMAIN Schema
  BY DEF Schema
<1>2. ParseLine(line) \in {NoRecord, ParseLineAnyWidth(line)}
  BY DEF ParseLine
<1>3. ParseLineAnyWidth(line) \in {NoRecord, record}
  <2> HIDE DEF Schema
  <2> QED
    BY <1>1, Zenon DEF ParseLineAnyWidth
<1>4. ParseLine(line) = record
  BY <1>2, <1>3
<1>5. named(fields[k].name) = k
  <2> HIDE DEF fields
  <2> QED
    BY DEF fields
<1>6. k \in present /\ fields[k].name \in names
  OBVIOUS
<1>7. value(fields[k].name) = parsed(k)
  <2> HIDE DEF present, parsed, named
  <2> QED
    BY <1>5, <1>6
<1>8. record.type = line.tag /\ record.f[fields[k].name] = value(fields[k].name)
  <2> HIDE DEF value, names
  <2> QED
    BY <1>6
<1> QED
  <2> HIDE DEF value, names, record
  <2> QED
    BY <1>4, <1>7, <1>8 DEF ReadAs

\* Before any vector, field k is token k.
LEMMA AtPlain ==
  ASSUME NEW S, NEW fields \in Seq(S), NEW k \in 1 .. Len(fields),
         \A i \in 1 .. k - 1 : fields[i].type \notin {"vec3", "quat"}
  PROVE  At(fields, k) = k
<1> DEFINE before == SubSeq(fields, 1, k - 1)
<1>1. /\ before \in Seq(S) /\ Len(before) = k - 1 /\ DOMAIN before = 1 .. k - 1
      /\ \A i \in 1 .. k - 1 : before[i] = fields[i]
  OBVIOUS
<1> HIDE DEF before
<1>2. OfType(before, "vec3") = {} /\ OfType(before, "quat") = {}
  BY <1>1 DEF OfType
<1>3. TotalWidth(before) = k - 1
  <2>1. Cardinality(OfType(before, "vec3")) = 0 /\ Cardinality(OfType(before, "quat")) = 0
    BY <1>2, FS_EmptySet
  <2> QED
    BY <1>1, <2>1 DEF TotalWidth
<1> QED
  BY <1>3 DEF At, before

TokenValues == [lit : {"int", "real", "nan", "ovf", "junk"}, v : Int, micro : Nat]
IsNumber(token) == token.lit \in {"int", "real"}

\* The tokens of a field.
FirstToken(tokens, fields, k, first, width) ==
  /\ tokens \in Seq(TokenValues) /\ first \in 1 .. Len(tokens) /\ width \in Nat \ {0}
  /\ first = At(fields, k) /\ width = Width(fields[k]) /\ first + width - 1 <= Len(tokens)

LEMMA TokensOf ==
  ASSUME NEW tokens, NEW fields, NEW k, NEW first, NEW width,
         FirstToken(tokens, fields, k, first, width), NEW c \in 1 .. width
  PROVE  c \in DOMAIN Tokens(fields, k, tokens) /\ Tokens(fields, k, tokens)[c] = tokens[first + c - 1]
<1> USE DEF FirstToken
<1>1. Tokens(fields, k, tokens) = SubSeq(tokens, first, first + width - 1)
  BY DEF Tokens
<1>2. first + c - 1 \in 1 .. Len(tokens)
  OBVIOUS
<1>3. /\ c \in DOMAIN SubSeq(tokens, first, first + width - 1)
      /\ SubSeq(tokens, first, first + width - 1)[c] = tokens[first + c - 1]
  BY <1>2
<1> QED
  BY <1>1, <1>2, <1>3

\* The names and types of the schemas' fields (the unused ones left out).
FieldNames ==
  {"timestamp_ms", "heading_deg", "roll_deg", "pitch_deg", "heading_sigma_deg",
   "roll_sigma_deg", "pitch_sigma_deg", "gyro_bias_dps", "gyro_bias_sigma_dps",
   "gyro_bias_x_dps", "gyro_bias_x_sigma_dps", "gyro_bias_y_dps", "gyro_bias_y_sigma_dps",
   "mag_offset_deg", "mag_offset_sigma_deg", "gate_rejects", "mag_gate_rejects",
   "orientation", "angular_velocity_rad_s", "accel_ms2", "magnetic_field_au", "valid",
   "mode", "error"}
PrintedDecimals == {0, 3, 4, 5}
SchemaFields ==
  [name : FieldNames, type : {"int", "float", "bool", "vec3", "quat"},
   decimals : PrintedDecimals, optional : BOOLEAN]

\* Field k is a number, with nothing but numbers before it.
PlainNumber(line, k, fields, tokens) ==
  /\ line.tag \in {"F", "I", "M", "G"} /\ fields = Schema[line.tag] /\ tokens = line.tokens
  /\ fields \in Seq(SchemaFields) /\ tokens \in Seq(TokenValues)
  /\ k \in 1 .. Len(fields) /\ k <= Len(tokens) /\ IsNumber(tokens[k])
  /\ \A j \in DOMAIN fields : fields[j].name = fields[k].name => j = k
  /\ \A i \in 1 .. k : fields[i].type \in {"int", "float"}
  /\ ParseLine(line) # NoRecord

\* Such a field is read as it was sent.
LEMMA NumberField ==
  ASSUME NEW line, NEW fields, NEW tokens, NEW k, PlainNumber(line, k, fields, tokens)
  PROVE  /\ ParseLine(line).type = line.tag
         /\ Scalar(ParseLine(line), fields[k].name) = tokens[k].v
<1> USE DEF PlainNumber
<1> HIDE DEF SchemaFields, TokenValues, IsNumber
<1>1. At(fields, k) = k
  <2>1. \A i \in 1 .. k - 1 : fields[i].type \notin {"vec3", "quat"}
    <3>1. \A i \in 1 .. k - 1 : i \in 1 .. k
      OBVIOUS
    <3> QED
      BY <3>1
  <2> QED
    BY <2>1, AtPlain
<1>2. Width(fields[k]) = 1
  BY DEF Width
<1>3. 1 \in DOMAIN Tokens(fields, k, tokens) /\ Tokens(fields, k, tokens)[1] = tokens[k]
  <2>1. FirstToken(tokens, fields, k, k, 1)
    BY <1>1, <1>2 DEF FirstToken
  <2>2. 1 \in 1 .. 1 /\ k + 1 - 1 = k
    OBVIOUS
  <2> QED
    BY <2>1, <2>2, TokensOf
<1>4. ParseToken(fields[k].type, tokens[k]).v = tokens[k].v
  BY DEF ParseToken, Number, Real, IsNumber
<1>5. k \in DOMAIN fields
  OBVIOUS
<1>6. ParseLine(line).type = line.tag /\ ReadAs(line, k, fields, tokens)
  <2>1. IsField(line, k)
    BY <1>1, <1>5 DEF IsField
  <2> QED
    BY <2>1, ParsedField
<1>7. ParseLine(line).f[fields[k].name][1] = ParseToken(fields[k].type, tokens[k])
  BY <1>3, <1>6 DEF ReadAs
<1> QED
  BY <1>4, <1>6, <1>7 DEF Scalar

\* What a field of one token may be.
ScalarKind(type, decimals, optional) ==
  type \in {"int", "float"} /\ decimals \in PrintedDecimals /\ optional \in BOOLEAN

AreFields(s, type, names) ==
  /\ s \in Seq(SchemaFields) /\ Len(s) = Len(names)
  /\ \A i \in 1 .. Len(names) : s[i].name = names[i] /\ s[i].type = type

LEMMA FieldsOf ==
  ASSUME NEW type, NEW decimals, NEW optional, ScalarKind(type, decimals, optional),
         NEW names \in Seq(FieldNames)
  PROVE  AreFields(Fields(type, decimals, optional, names), type, names)
<1> USE DEF SchemaFields, ScalarKind
<1>1. \A i \in 1 .. Len(names) : Field(names[i], type, decimals, optional) \in SchemaFields
  <2> HIDE DEF FieldNames
  <2> QED
    BY DEF Field
<1>2. DOMAIN names = 1 .. Len(names)
  OBVIOUS
<1> HIDE DEF SchemaFields, FieldNames
<1> QED
  BY <1>1, <1>2 DEF AreFields, Fields, Field

\* u is s, of length m, followed by t, of length n.
IsJoined(S, u, s, m, t, n) ==
  /\ u \in Seq(S) /\ Len(u) = m + n
  /\ \A i \in 1 .. m : u[i] = s[i]
  /\ \A i \in 1 .. n : u[m + i] = t[i]

LEMMA Joined ==
  ASSUME NEW S, NEW s \in Seq(S), NEW t \in Seq(S)
  PROVE  IsJoined(S, s \o t, s, Len(s), t, Len(t))
BY DEF IsJoined

LEMMA FusionFields ==
  /\ FusionRecord \in Seq(SchemaFields) /\ Len(FusionRecord) = 17
  /\ FusionRecord[1].name = "timestamp_ms" /\ FusionRecord[1].type = "int"
  /\ FusionRecord[2].name = "heading_deg" /\ FusionRecord[2].type = "float"
  /\ FusionRecord[3].name = "roll_deg" /\ FusionRecord[3].type = "float"
  /\ FusionRecord[4].name = "pitch_deg" /\ FusionRecord[4].type = "float"
  /\ \A j \in 5 .. 17 : FusionRecord[j].name \notin
                          {"timestamp_ms", "heading_deg", "roll_deg", "pitch_deg"}
  /\ \A i, j \in 1 .. 17 : FusionRecord[i].name = FusionRecord[j].name => i = j
  /\ \A j \in 1 .. 17 : FusionRecord[j].type \in {"int", "float"}
<1> DEFINE an == <<"timestamp_ms">>
           bn == <<"heading_deg", "roll_deg", "pitch_deg", "heading_sigma_deg",
                   "roll_sigma_deg", "pitch_sigma_deg">>
           cn == <<"gyro_bias_dps", "gyro_bias_sigma_dps", "gyro_bias_x_dps",
                   "gyro_bias_x_sigma_dps", "gyro_bias_y_dps", "gyro_bias_y_sigma_dps",
                   "mag_offset_deg", "mag_offset_sigma_deg">>
           ratesN == <<"gyro_bias_dps", "gyro_bias_sigma_dps", "gyro_bias_x_dps",
                   "gyro_bias_x_sigma_dps", "gyro_bias_y_dps", "gyro_bias_y_sigma_dps">>
           offsetN == <<"mag_offset_deg", "mag_offset_sigma_deg">>
           dn == <<"gate_rejects", "mag_gate_rejects">>
           a == Fields("int", 0, FALSE, an)
           b == Fields("float", 3, FALSE, bn)
           rates == Fields("float", 4, TRUE, ratesN)
           offset == Fields("float", 3, TRUE, offsetN)
           c == rates \o offset
           d == Fields("int", 0, TRUE, dn)
<1>22. FusionRecord = (((a \o b) \o rates) \o offset) \o d
  BY DEF FusionRecord
<1>2. an \in Seq(FieldNames) /\ Len(an) = 1
  BY DEF FieldNames
<1>3. bn \in Seq(FieldNames) /\ Len(bn) = 6
  BY DEF FieldNames
<1>4. cn \in Seq(FieldNames) /\ Len(cn) = 8
  BY DEF FieldNames
<1>5. dn \in Seq(FieldNames) /\ Len(dn) = 2
  BY DEF FieldNames
<1>23. /\ ratesN \in Seq(FieldNames) /\ Len(ratesN) = 6
       /\ offsetN \in Seq(FieldNames) /\ Len(offsetN) = 2
  BY DEF FieldNames
<1>25. /\ ScalarKind("int", 0, FALSE) /\ ScalarKind("float", 3, FALSE)
       /\ ScalarKind("float", 4, TRUE) /\ ScalarKind("float", 3, TRUE)
       /\ ScalarKind("int", 0, TRUE)
  BY DEF ScalarKind, PrintedDecimals
<1>24. /\ \A i \in 1 .. 6 : cn[i] = ratesN[i]
       /\ \A i \in 1 .. 2 : cn[6 + i] = offsetN[i]
  OBVIOUS
<1> HIDE DEF an, bn, cn, dn, ratesN, offsetN
<1>26. /\ AreFields(a, "int", an) /\ AreFields(b, "float", bn)
       /\ AreFields(rates, "float", ratesN) /\ AreFields(offset, "float", offsetN)
       /\ AreFields(d, "int", dn)
  BY Zenon, <1>2, <1>3, <1>5, <1>23, <1>25, FieldsOf
<1> HIDE DEF a, b, rates, offset, d
<1>6. a \in Seq(SchemaFields) /\ Len(a) = 1 /\ a[1].name = an[1] /\ a[1].type = "int"
  BY <1>2, <1>26 DEF AreFields
<1>7. b \in Seq(SchemaFields) /\ Len(b) = 6
      /\ \A i \in 1 .. 6 : b[i].name = bn[i] /\ b[i].type = "float"
  BY <1>3, <1>26 DEF AreFields
<1>8. c \in Seq(SchemaFields) /\ Len(c) = 8 /\ \A i \in 1 .. 8 : c[i].name = cn[i] /\ c[i].type = "float"
  <2>1. /\ rates \in Seq(SchemaFields) /\ Len(rates) = 6
        /\ \A i \in 1 .. 6 : rates[i].name = ratesN[i] /\ rates[i].type = "float"
    BY <1>23, <1>26 DEF AreFields
  <2>2. /\ offset \in Seq(SchemaFields) /\ Len(offset) = 2
        /\ \A i \in 1 .. 2 : offset[i].name = offsetN[i] /\ offset[i].type = "float"
    BY <1>23, <1>26 DEF AreFields
  <2>3. IsJoined(SchemaFields, c, rates, 6, offset, 2)
    <3>1. IsJoined(SchemaFields, c, rates, Len(rates), offset, Len(offset))
      BY <2>1, <2>2, Joined
    <3> QED BY <2>1, <2>2, <3>1
  <2> HIDE DEF c
  <2>4. c \in Seq(SchemaFields) /\ Len(c) = 8
    BY <2>3 DEF IsJoined
  <2>5. \A i \in 1 .. 6 : c[i].name = cn[i] /\ c[i].type = "float"
    BY <1>24, <2>1, <2>3 DEF IsJoined
  <2>6. \A i \in 1 .. 2 : c[6 + i].name = cn[6 + i] /\ c[6 + i].type = "float"
    BY <1>24, <2>2, <2>3 DEF IsJoined
  <2>7. ASSUME NEW i \in 1 .. 8 PROVE c[i].name = cn[i] /\ c[i].type = "float"
    <3>1. CASE i \in 1 .. 6
      BY <2>5, <3>1
    <3>2. CASE i \in 7 .. 8
      <4>1. PICK j \in 1 .. 2 : i = 6 + j
        <5>1. i - 6 \in 1 .. 2 /\ i = 6 + (i - 6)
          BY <3>2
        <5> QED BY <5>1
      <4> QED BY <2>6, <4>1
    <3> QED BY <3>1, <3>2
  <2> QED BY <2>4, <2>7
<1>9. d \in Seq(SchemaFields) /\ Len(d) = 2 /\ \A i \in 1 .. 2 : d[i].name = dn[i] /\ d[i].type = "int"
  BY <1>5, <1>26 DEF AreFields
<1>1. FusionRecord = ((a \o b) \o c) \o d
  <2>1. /\ a \o b \in Seq(SchemaFields)
        /\ rates \in Seq(SchemaFields) /\ offset \in Seq(SchemaFields)
    <3>1. rates \in Seq(SchemaFields) /\ offset \in Seq(SchemaFields)
      BY <1>23, <1>26 DEF AreFields
    <3>2. a \in Seq(SchemaFields) /\ b \in Seq(SchemaFields)
      BY <1>6, <1>7
    <3>3. a \o b \in Seq(SchemaFields)
      BY <3>2
    <3> QED BY <3>1, <3>3
  <2>2. ((a \o b) \o rates) \o offset = (a \o b) \o c
    <3>1. \A x, y, z \in Seq(SchemaFields) : (x \o y) \o z = x \o (y \o z)
      OBVIOUS
    <3> QED BY <2>1, <3>1 DEF c
  <2> QED BY <1>22, <2>2
<1> HIDE DEF c
<1>10. /\ FusionRecord \in Seq(SchemaFields) /\ Len(FusionRecord) = 17
       /\ FusionRecord[1] = a[1]
       /\ \A i \in 1 .. 6 : FusionRecord[1 + i] = b[i]
       /\ \A i \in 1 .. 8 : FusionRecord[7 + i] = c[i]
       /\ \A i \in 1 .. 2 : FusionRecord[15 + i] = d[i]
  <2> DEFINE ab == a \o b
             abc == ab \o c
  <2>1. a \in Seq(SchemaFields) /\ b \in Seq(SchemaFields) /\ Len(a) = 1 /\ Len(b) = 6
    BY <1>6, <1>7
  <2>2. c \in Seq(SchemaFields) /\ d \in Seq(SchemaFields) /\ Len(c) = 8 /\ Len(d) = 2
    BY <1>8, <1>9
  <2>3. IsJoined(SchemaFields, ab, a, 1, b, 6)
    <3>1. IsJoined(SchemaFields, ab, a, Len(a), b, Len(b))
      BY <2>1, Joined
    <3> QED
      BY <2>1, <3>1
  <2>4. ab \in Seq(SchemaFields) /\ Len(ab) = 7
    BY <2>3 DEF IsJoined
  <2> HIDE DEF ab
  <2>5. IsJoined(SchemaFields, abc, ab, 7, c, 8)
    <3>1. IsJoined(SchemaFields, abc, ab, Len(ab), c, Len(c))
      BY <2>2, <2>4, Joined
    <3> QED
      BY <2>2, <2>4, <3>1
  <2>6. abc \in Seq(SchemaFields) /\ Len(abc) = 15
    BY <2>5 DEF IsJoined
  <2> HIDE DEF abc
  <2>7. IsJoined(SchemaFields, FusionRecord, abc, 15, d, 2)
    <3>1. IsJoined(SchemaFields, abc \o d, abc, Len(abc), d, Len(d))
      BY <2>2, <2>6, Joined
    <3> QED
      BY <1>1, <2>2, <2>6, <3>1 DEF abc, ab
  <2>8. FusionRecord \in Seq(SchemaFields) /\ Len(FusionRecord) = 17
    BY <2>7 DEF IsJoined
  <2>9. \A i \in 1 .. 15 : FusionRecord[i] = abc[i]
    BY <2>7 DEF IsJoined
  <2>10. \A i \in 1 .. 7 : FusionRecord[i] = ab[i]
    BY <2>5, <2>9 DEF IsJoined
  <2>11. FusionRecord[1] = a[1] /\ \A i \in 1 .. 6 : FusionRecord[1 + i] = b[i]
    BY <2>3, <2>10 DEF IsJoined
  <2>12. \A i \in 1 .. 8 : FusionRecord[7 + i] = c[i]
    BY <2>5, <2>9 DEF IsJoined
  <2> QED
    BY <2>7, <2>8, <2>11, <2>12 DEF IsJoined
<1> USE DEF an, bn, cn, dn
<1>11. /\ an[1] = "timestamp_ms" /\ bn[1] = "heading_deg" /\ bn[2] = "roll_deg"
       /\ bn[3] = "pitch_deg"
  OBVIOUS
<1> DEFINE known == {"timestamp_ms", "heading_deg", "roll_deg", "pitch_deg"}
<1>12. bn[4] \notin known /\ bn[5] \notin known /\ bn[6] \notin known
  OBVIOUS
<1>13. /\ cn[1] \notin known /\ cn[2] \notin known /\ cn[3] \notin known /\ cn[4] \notin known
       /\ cn[5] \notin known /\ cn[6] \notin known /\ cn[7] \notin known /\ cn[8] \notin known
  OBVIOUS
<1>14. dn[1] \notin known /\ dn[2] \notin known
  OBVIOUS
<1> DEFINE Place(name) ==
             IF name = "timestamp_ms" THEN 1 ELSE IF name = "heading_deg" THEN 2
             ELSE IF name = "roll_deg" THEN 3 ELSE IF name = "pitch_deg" THEN 4
             ELSE IF name = "heading_sigma_deg" THEN 5 ELSE IF name = "roll_sigma_deg" THEN 6
             ELSE IF name = "pitch_sigma_deg" THEN 7 ELSE IF name = "gyro_bias_dps" THEN 8
             ELSE IF name = "gyro_bias_sigma_dps" THEN 9 ELSE IF name = "gyro_bias_x_dps" THEN 10
             ELSE IF name = "gyro_bias_x_sigma_dps" THEN 11 ELSE IF name = "gyro_bias_y_dps" THEN 12
             ELSE IF name = "gyro_bias_y_sigma_dps" THEN 13 ELSE IF name = "mag_offset_deg" THEN 14
             ELSE IF name = "mag_offset_sigma_deg" THEN 15 ELSE IF name = "gate_rejects" THEN 16
             ELSE 17
<1>15. /\ Place(an[1]) = 1 /\ Place(bn[1]) = 2 /\ Place(bn[2]) = 3 /\ Place(bn[3]) = 4
       /\ Place(bn[4]) = 5 /\ Place(bn[5]) = 6 /\ Place(bn[6]) = 7
  OBVIOUS
<1>16. /\ Place(cn[1]) = 8 /\ Place(cn[2]) = 9 /\ Place(cn[3]) = 10 /\ Place(cn[4]) = 11
       /\ Place(cn[5]) = 12 /\ Place(cn[6]) = 13 /\ Place(cn[7]) = 14 /\ Place(cn[8]) = 15
       /\ Place(dn[1]) = 16 /\ Place(dn[2]) = 17
  OBVIOUS
<1> HIDE DEF an, bn, cn, dn, known, Place
<1>17. \A j \in 1 .. 17 : Place(FusionRecord[j].name) = j
  <2>1. ASSUME NEW j \in 2 .. 7 PROVE Place(FusionRecord[j].name) = j
    <3>1. j - 1 \in {1, 2, 3, 4, 5, 6} /\ j = 1 + (j - 1)
      OBVIOUS
    <3>2. \A i \in 1 .. 6 : FusionRecord[1 + i].name = bn[i]
      BY <1>7, <1>10
    <3>3. FusionRecord[j].name = bn[j - 1]
      <4>1. j - 1 \in 1 .. 6
        OBVIOUS
      <4>2. FusionRecord[1 + (j - 1)].name = bn[j - 1]
        BY <3>2, <4>1
      <4> QED BY <3>1, <4>2
    <3>4. /\ j = 2 => bn[j - 1] = bn[1]
          /\ j = 3 => bn[j - 1] = bn[2]
          /\ j = 4 => bn[j - 1] = bn[3]
          /\ j = 5 => bn[j - 1] = bn[4]
          /\ j = 6 => bn[j - 1] = bn[5]
          /\ j = 7 => bn[j - 1] = bn[6]
      OBVIOUS
    <3>5. j = 2 \/ j = 3 \/ j = 4 \/ j = 5 \/ j = 6 \/ j = 7
      OBVIOUS
    <3> QED BY <1>15, <3>3, <3>4, <3>5
  <2>2. ASSUME NEW j \in 8 .. 15 PROVE Place(FusionRecord[j].name) = j
    <3>1. j - 7 \in {1, 2, 3, 4, 5, 6, 7, 8} /\ j = 7 + (j - 7)
      OBVIOUS
    <3>2. \A i \in 1 .. 8 : FusionRecord[7 + i].name = cn[i]
      BY <1>8, <1>10
    <3>3. FusionRecord[j].name = cn[j - 7]
      <4>1. FusionRecord[7 + (j - 7)].name = cn[j - 7]
        <5>1. j - 7 \in 1 .. 8
          OBVIOUS
        <5> QED BY <3>2, <5>1
      <4> QED BY <3>1, <4>1
    <3>4. /\ j = 8 => cn[j - 7] = cn[1]
          /\ j = 9 => cn[j - 7] = cn[2]
          /\ j = 10 => cn[j - 7] = cn[3]
          /\ j = 11 => cn[j - 7] = cn[4]
          /\ j = 12 => cn[j - 7] = cn[5]
          /\ j = 13 => cn[j - 7] = cn[6]
          /\ j = 14 => cn[j - 7] = cn[7]
          /\ j = 15 => cn[j - 7] = cn[8]
      OBVIOUS
    <3>5. j = 8 \/ j = 9 \/ j = 10 \/ j = 11 \/ j = 12 \/ j = 13 \/ j = 14 \/ j = 15
      OBVIOUS
    <3> QED BY <1>16, <3>3, <3>4, <3>5
  <2>3. ASSUME NEW j \in 16 .. 17 PROVE Place(FusionRecord[j].name) = j
    <3>1. j - 15 \in {1, 2} /\ j = 15 + (j - 15)
      OBVIOUS
    <3>2. \A i \in {1, 2} : Place(dn[i]) = i + 15 /\ FusionRecord[15 + i].name = dn[i]
      BY <1>9, <1>10, <1>16, SMTT(30)
    <3> QED BY <3>1, <3>2
  <2>4. \A j \in 1 .. 17 : j = 1 \/ j \in 2 .. 7 \/ j \in 8 .. 15 \/ j \in 16 .. 17
    OBVIOUS
  <2> QED BY <1>6, <1>10, <1>15, <2>1, <2>2, <2>3, <2>4
<1>18. \A i, j \in 1 .. 17 : FusionRecord[i].name = FusionRecord[j].name => i = j
  BY <1>17
<1>19. \A j \in 1 .. 17 : FusionRecord[j].type \in {"int", "float"}
  <2>1. ASSUME NEW j \in 2 .. 7 PROVE FusionRecord[j].type = "float"
    <3>1. j - 1 \in 1 .. 6 /\ j = 1 + (j - 1)
      OBVIOUS
    <3> QED BY <1>7, <1>10, <3>1
  <2>2. ASSUME NEW j \in 8 .. 15 PROVE FusionRecord[j].type = "float"
    <3>1. j - 7 \in 1 .. 8 /\ j = 7 + (j - 7)
      OBVIOUS
    <3> QED BY <1>8, <1>10, <3>1
  <2>3. ASSUME NEW j \in 16 .. 17 PROVE FusionRecord[j].type = "int"
    <3>1. j - 15 \in 1 .. 2 /\ j = 15 + (j - 15)
      OBVIOUS
    <3> QED BY <1>9, <1>10, <3>1
  <2>4. \A j \in 1 .. 17 : j = 1 \/ j \in 2 .. 7 \/ j \in 8 .. 15 \/ j \in 16 .. 17
    OBVIOUS
  <2> QED BY <1>6, <1>10, <2>1, <2>2, <2>3, <2>4
<1>20. \A j \in 5 .. 17 : FusionRecord[j].name \notin known
  <2>1. ASSUME NEW j \in 5 .. 7 PROVE FusionRecord[j].name \notin known
    <3>1. j - 1 \in {4, 5, 6} /\ j = 1 + (j - 1)
      OBVIOUS
    <3> QED
      BY <1>7, <1>10, <1>12, <3>1
  <2>2. ASSUME NEW j \in 8 .. 15 PROVE FusionRecord[j].name \notin known
    <3>1. j - 7 \in 1 .. 8 /\ j = 7 + (j - 7) /\ j - 7 \in {1, 2, 3, 4, 5, 6, 7, 8}
      OBVIOUS
    <3> QED
      BY <1>8, <1>10, <1>13, <3>1
  <2>3. ASSUME NEW j \in 16 .. 17 PROVE FusionRecord[j].name \notin known
    <3>1. j - 15 \in {1, 2} /\ j = 15 + (j - 15)
      OBVIOUS
    <3> QED
      BY <1>9, <1>10, <1>14, <3>1
  <2>4. \A j \in 5 .. 17 : j \in 5 .. 7 \/ j \in 8 .. 15 \/ j \in 16 .. 17
    OBVIOUS
  <2> QED
    BY <2>1, <2>2, <2>3, <2>4
<1>21. /\ FusionRecord[2] = b[1] /\ FusionRecord[3] = b[2] /\ FusionRecord[4] = b[3]
  BY <1>10
<1> QED
  BY <1>6, <1>7, <1>10, <1>11, <1>18, <1>19, <1>20, <1>21 DEF known

LEMMA FusionLineParses ==
  ASSUME NEW time \in Int, NEW heading \in Int, NEW roll \in Int, NEW extra \in Nat
  PROVE  LET tokens == FusionTokens(time, heading, roll, extra)
         IN  /\ tokens \in Seq(TokenValues) /\ Len(tokens) = 15 + extra
             /\ tokens[1] = IntToken(time) /\ tokens[2] = RealToken(heading)
             /\ tokens[3] = RealToken(roll) /\ tokens[4] = RealToken(0)
<1> DEFINE a == <<IntToken(time), RealToken(heading), RealToken(roll), RealToken(0)>>
           b == Sigma3
           c == [i \in 1 .. 8 |-> RealToken(0)]
           d == [i \in 1 .. extra |-> IntToken(0)]
           ab == a \o b
           abc == ab \o c
           abcd == abc \o d
<1>1. a \in Seq(TokenValues) /\ Len(a) = 4
  BY DEF TokenValues, IntToken, RealToken, Decimal
<1>2. b \in Seq(TokenValues) /\ Len(b) = 3
  BY DEF TokenValues, RealToken, Decimal, Sigma3
<1>3. c \in Seq(TokenValues) /\ Len(c) = 8
  BY DEF TokenValues, RealToken, Decimal
<1>4. d \in Seq(TokenValues) /\ Len(d) = extra
  BY DEF TokenValues, IntToken
<1>5. /\ a[1] = IntToken(time) /\ a[2] = RealToken(heading)
      /\ a[3] = RealToken(roll) /\ a[4] = RealToken(0)
  OBVIOUS
<1>6. FusionTokens(time, heading, roll, extra) = abcd
  BY DEF FusionTokens
<1> HIDE DEF a, b, c, d
<1>7. IsJoined(TokenValues, ab, a, Len(a), b, Len(b))
  BY <1>1, <1>2, Joined
<1>8. ab \in Seq(TokenValues) /\ Len(ab) = 7 /\ \A i \in 1 .. 4 : ab[i] = a[i]
  BY <1>1, <1>2, <1>7 DEF IsJoined
<1> HIDE DEF ab
<1>9. IsJoined(TokenValues, abc, ab, Len(ab), c, Len(c))
  BY <1>3, <1>8, Joined
<1>10. abc \in Seq(TokenValues) /\ Len(abc) = 15 /\ \A i \in 1 .. 4 : abc[i] = a[i]
  <2>1. abc \in Seq(TokenValues) /\ Len(abc) = 15
    BY <1>3, <1>8, <1>9 DEF IsJoined
  <2>2. \A i \in 1 .. Len(ab) : abc[i] = ab[i]
    BY <1>9 DEF IsJoined
  <2>3. \A i \in 1 .. 4 : i \in 1 .. Len(ab)
    BY <1>8
  <2> HIDE DEF abc
  <2> QED
    BY <1>8, <2>1, <2>2, <2>3
<1> HIDE DEF abc
<1>11. IsJoined(TokenValues, abcd, abc, Len(abc), d, Len(d))
  BY <1>4, <1>10, Joined
<1>12. /\ abcd \in Seq(TokenValues) /\ Len(abcd) = 15 + extra
       /\ \A i \in 1 .. 4 : abcd[i] = a[i]
  <2>1. abcd \in Seq(TokenValues) /\ Len(abcd) = 15 + extra
    BY <1>4, <1>10, <1>11 DEF IsJoined
  <2>2. \A i \in 1 .. Len(abc) : abcd[i] = abc[i]
    BY <1>11 DEF IsJoined
  <2>3. \A i \in 1 .. 4 : i \in 1 .. Len(abc)
    BY <1>10
  <2> HIDE DEF abcd
  <2> QED
    BY <1>10, <2>1, <2>2, <2>3
<1> HIDE DEF abcd
<1> QED
  BY <1>5, <1>6, <1>12

LEMMA ImuLineParses ==
  ASSUME NEW time \in Int, NEW x \in Int, NEW gyroZ \in Int
  PROVE  LET tokens == ImuTokens(time, x, gyroZ)
         IN  /\ tokens \in Seq(TokenValues) /\ Len(tokens) = 11
             /\ tokens[1] = IntToken(time) /\ tokens[2] = RealToken(1)
             /\ tokens[3] = RealToken(x) /\ tokens[4] = RealToken(0)
             /\ tokens[5] = RealToken(0) /\ tokens[6] = RealToken(0)
             /\ tokens[7] = RealToken(0) /\ tokens[8] = RealToken(gyroZ)
<1> DEFINE a == <<IntToken(time), RealToken(1), RealToken(x), RealToken(0), RealToken(0),
                  RealToken(0), RealToken(0), RealToken(gyroZ)>>
           b == Sigma3
           ab == a \o b
<1>1. a \in Seq(TokenValues) /\ Len(a) = 8
  BY DEF TokenValues, IntToken, RealToken, Decimal
<1>2. b \in Seq(TokenValues) /\ Len(b) = 3
  BY DEF TokenValues, RealToken, Decimal, Sigma3
<1>3. /\ a[1] = IntToken(time) /\ a[2] = RealToken(1) /\ a[3] = RealToken(x)
      /\ a[4] = RealToken(0) /\ a[5] = RealToken(0) /\ a[6] = RealToken(0)
      /\ a[7] = RealToken(0) /\ a[8] = RealToken(gyroZ)
  OBVIOUS
<1>4. ImuTokens(time, x, gyroZ) = ab
  BY DEF ImuTokens
<1> HIDE DEF a, b
<1>5. IsJoined(TokenValues, ab, a, Len(a), b, Len(b))
  BY <1>1, <1>2, Joined
<1>6. ab \in Seq(TokenValues) /\ Len(ab) = 11 /\ \A i \in 1 .. 8 : ab[i] = a[i]
  BY <1>1, <1>2, <1>5 DEF IsJoined
<1> HIDE DEF ab
<1> QED
  BY <1>3, <1>4, <1>6

\* What parse_line reads from an F line that parses.
LEMMA FusionRead ==
  ASSUME NEW line, NEW tokens, line.tag = "F", line.tokens = tokens,
         tokens \in Seq(TokenValues), Len(tokens) >= 4, ParseLine(line) # NoRecord,
         \A k \in 1 .. 4 : IsNumber(tokens[k])
  PROVE  LET record == ParseLine(line)
         IN  /\ record.type = "F" /\ Stamp(record) = tokens[1].v
             /\ Scalar(record, "heading_deg") = tokens[2].v
             /\ Scalar(record, "roll_deg") = tokens[3].v
             /\ Scalar(record, "pitch_deg") = tokens[4].v
<1> DEFINE fields == FusionRecord
<1>1. Schema[line.tag] = fields
  BY DEF Schema
<1>2. /\ fields \in Seq(SchemaFields) /\ Len(fields) = 17
      /\ fields[1].name = "timestamp_ms" /\ fields[1].type = "int"
      /\ fields[2].name = "heading_deg" /\ fields[2].type = "float"
      /\ fields[3].name = "roll_deg" /\ fields[3].type = "float"
      /\ fields[4].name = "pitch_deg" /\ fields[4].type = "float"
      /\ \A j \in 5 .. 17 : fields[j].name \notin
                              {"timestamp_ms", "heading_deg", "roll_deg", "pitch_deg"}
  BY FusionFields
<1>3. DOMAIN fields = 1 .. 17
  BY <1>2
<1> HIDE DEF fields
<1>4. ASSUME NEW k \in 1 .. 4 PROVE PlainNumber(line, k, fields, tokens)
  <2>1. \A j \in DOMAIN fields : fields[j].name = fields[k].name => j = k
    <3>1. \A i, j \in 1 .. 17 : fields[i].name = fields[j].name => i = j
      BY FusionFields DEF fields
    <3>2. k \in 1 .. 17
      OBVIOUS
    <3> QED
      BY <1>3, <3>1, <3>2
  <2>2. \A i \in 1 .. k : fields[i].type \in {"int", "float"}
    <3>1. \A i \in 1 .. k : i \in {1, 2, 3, 4}
      OBVIOUS
    <3> QED
      BY <1>2, <3>1
  <2>3. k \in 1 .. Len(fields) /\ k <= Len(tokens) /\ IsNumber(tokens[k])
    BY <1>2
  <2> QED
    BY <1>1, <1>2, <2>1, <2>2, <2>3 DEF PlainNumber
<1>5. ParseLine(line).type = "F" /\ Scalar(ParseLine(line), fields[1].name) = tokens[1].v
  BY <1>4, NumberField
<1>6. Scalar(ParseLine(line), fields[2].name) = tokens[2].v
  BY <1>4, NumberField
<1>7. Scalar(ParseLine(line), fields[3].name) = tokens[3].v
  BY <1>4, NumberField
<1>8. Scalar(ParseLine(line), fields[4].name) = tokens[4].v
  BY <1>4, NumberField
<1> QED
  BY <1>2, <1>5, <1>6, <1>7, <1>8 DEF Stamp

\* The vectors of an I line: its quaternion is tokens 2 to 5, its rates 6 to 8.
LEMMA ImuFields ==
  /\ ImuRecord \in Seq(SchemaFields) /\ Len(ImuRecord) = 4 /\ DOMAIN ImuRecord = 1 .. 4
  /\ ImuRecord[1].name = "timestamp_ms" /\ ImuRecord[1].type = "int"
  /\ ImuRecord[2].name = "orientation" /\ ImuRecord[2].type = "quat"
  /\ ImuRecord[3].name = "angular_velocity_rad_s" /\ ImuRecord[3].type = "vec3"
  /\ ImuRecord[4].name = "accel_ms2"
  /\ At(ImuRecord, 2) = 2 /\ At(ImuRecord, 3) = 6
<1> DEFINE r == ImuRecord
<1>1. r \in Seq(SchemaFields) /\ Len(r) = 4
  BY DEF ImuRecord, Field, SchemaFields, FieldNames, PrintedDecimals
<1>2. /\ r[1].name = "timestamp_ms" /\ r[1].type = "int"
      /\ r[2].name = "orientation" /\ r[2].type = "quat"
      /\ r[3].name = "angular_velocity_rad_s" /\ r[3].type = "vec3"
      /\ r[4].name = "accel_ms2"
  BY DEF ImuRecord, Field
<1> HIDE DEF r, SchemaFields
<1>3. DOMAIN r = 1 .. 4
  BY <1>1
<1>4. At(r, 2) = 2
  <2>1. \A i \in 1 .. 2 - 1 : r[i].type \notin {"vec3", "quat"}
    <3>1. \A i \in 1 .. 2 - 1 : i = 1
      OBVIOUS
    <3> QED
      BY <1>2, <3>1
  <2>2. 2 \in 1 .. Len(r)
    BY <1>1
  <2> QED
    BY <1>1, <2>1, <2>2, AtPlain
<1>5. At(r, 3) = 6
  <2> DEFINE before == SubSeq(r, 1, 2)
  <2>1. /\ Len(before) = 2 /\ DOMAIN before = 1 .. 2
        /\ before[1] = r[1] /\ before[2] = r[2]
    BY <1>1
  <2> HIDE DEF before
  <2>2. \A i \in 1 .. 2 : i \in {1, 2}
    OBVIOUS
  <2>3. OfType(before, "vec3") = {} /\ OfType(before, "quat") = {2}
    BY <1>2, <2>1, <2>2 DEF OfType
  <2>4. Cardinality(OfType(before, "vec3")) = 0 /\ Cardinality(OfType(before, "quat")) = 1
    BY <2>3, FS_EmptySet, FS_Singleton
  <2>5. TotalWidth(before) = 5
    BY <2>1, <2>4 DEF TotalWidth
  <2> QED
    BY <2>5 DEF At, before
<1> QED
  BY <1>1, <1>2, <1>3, <1>4, <1>5 DEF r

\* What parse_line reads from an I line that parses.
LEMMA ImuRead ==
  ASSUME NEW line, NEW tokens, line.tag = "I", line.tokens = tokens,
         tokens \in Seq(TokenValues), Len(tokens) = 11, ParseLine(line) # NoRecord,
         \A k \in 1 .. 8 : IsNumber(tokens[k])
  PROVE  LET record == ParseLine(line)
         IN  /\ record.type = "I" /\ Stamp(record) = tokens[1].v
             /\ Orientation(record) =
                  Quaternion(tokens[2].v, tokens[3].v, tokens[4].v, tokens[5].v)
             /\ GyroZ(record) = tokens[8].v
<1> DEFINE fields == ImuRecord
           record == ParseLine(line)
<1>1. Schema[line.tag] = fields
  BY DEF Schema
<1>2. /\ fields \in Seq(SchemaFields) /\ Len(fields) = 4 /\ DOMAIN fields = 1 .. 4
      /\ fields[1].name = "timestamp_ms" /\ fields[1].type = "int"
      /\ fields[2].name = "orientation" /\ fields[2].type = "quat"
      /\ fields[3].name = "angular_velocity_rad_s" /\ fields[3].type = "vec3"
      /\ fields[4].name = "accel_ms2"
      /\ At(fields, 2) = 2 /\ At(fields, 3) = 6
  BY ImuFields
<1> HIDE DEF fields
<1>3. \A k \in 1 .. 4 : \A j \in DOMAIN fields : fields[j].name = fields[k].name => j = k
  <2>1. ASSUME NEW k \in 1 .. 4, NEW j \in 1 .. 4, fields[j].name = fields[k].name PROVE j = k
    <3>1. k \in {1, 2, 3, 4} /\ j \in {1, 2, 3, 4}
      OBVIOUS
    <3> QED
      BY <1>2, <2>1, <3>1
  <2> QED
    BY <1>2, <2>1
<1>4. record.type = "I" /\ Scalar(record, fields[1].name) = tokens[1].v
  <2>1. 1 \in 1 .. Len(fields) /\ 1 <= Len(tokens) /\ IsNumber(tokens[1]) /\ 1 \in 1 .. 4
    BY <1>2
  <2>2. \A i \in 1 .. 1 : fields[i].type \in {"int", "float"}
    <3>1. \A i \in 1 .. 1 : i = 1
      OBVIOUS
    <3> QED
      BY <1>2, <3>1
  <2>3. PlainNumber(line, 1, fields, tokens)
    BY <1>1, <1>2, <1>3, <2>1, <2>2 DEF PlainNumber
  <2> QED
    BY <2>3, NumberField
<1>5. \A k \in 2 .. 3 : ReadAs(line, k, fields, tokens)
  <2>1. ASSUME NEW k \in 2 .. 3 PROVE IsField(line, k)
    <3>1. k \in {2, 3} /\ k \in 1 .. 4
      OBVIOUS
    <3>2. At(fields, k) <= Len(tokens)
      BY <1>2, <3>1
    <3> QED
      BY <1>1, <1>2, <1>3, <3>1, <3>2 DEF IsField
  <2> QED
    BY <1>1, <2>1, ParsedField
<1>6. /\ \A c \in 1 .. 4 : c \in DOMAIN Tokens(fields, 2, tokens)
                             /\ Tokens(fields, 2, tokens)[c] = tokens[2 + c - 1]
      /\ \A c \in 1 .. 3 : c \in DOMAIN Tokens(fields, 3, tokens)
                             /\ Tokens(fields, 3, tokens)[c] = tokens[6 + c - 1]
  <2>1. Width(fields[2]) = 4 /\ Width(fields[3]) = 3
    BY <1>2 DEF Width
  <2>2. FirstToken(tokens, fields, 2, 2, 4) /\ FirstToken(tokens, fields, 3, 6, 3)
    BY <1>2, <2>1 DEF FirstToken
  <2> QED
    BY <2>2, TokensOf
<1>7. /\ record.f["orientation"] = [c \in DOMAIN Tokens(fields, 2, tokens) |->
                                      ParseToken("quat", Tokens(fields, 2, tokens)[c])]
      /\ record.f["angular_velocity_rad_s"] = [c \in DOMAIN Tokens(fields, 3, tokens) |->
                                      ParseToken("vec3", Tokens(fields, 3, tokens)[c])]
  <2>1. 2 \in 2 .. 3 /\ 3 \in 2 .. 3
    OBVIOUS
  <2> QED
    BY <1>2, <1>5, <2>1 DEF ReadAs
<1>8. \A k \in 1 .. 8 : ParseToken("quat", tokens[k]).v = tokens[k].v
                       /\ ParseToken("vec3", tokens[k]).v = tokens[k].v
  BY DEF ParseToken, Number, Real, IsNumber
<1> DEFINE q == record.f["orientation"]
           w == record.f["angular_velocity_rad_s"]
<1>9. /\ q[1] = ParseToken("quat", tokens[2]) /\ q[2] = ParseToken("quat", tokens[3])
      /\ q[3] = ParseToken("quat", tokens[4]) /\ q[4] = ParseToken("quat", tokens[5])
      /\ w[3] = ParseToken("vec3", tokens[8])
  <2>1. /\ 1 \in 1 .. 4 /\ 2 \in 1 .. 4 /\ 3 \in 1 .. 4 /\ 4 \in 1 .. 4 /\ 3 \in 1 .. 3
        /\ 2 + 1 - 1 = 2 /\ 2 + 2 - 1 = 3 /\ 2 + 3 - 1 = 4 /\ 2 + 4 - 1 = 5 /\ 6 + 3 - 1 = 8
    OBVIOUS
  <2> QED
    BY <1>6, <1>7, <2>1
<1>10. /\ q[1].v = tokens[2].v /\ q[2].v = tokens[3].v /\ q[3].v = tokens[4].v
       /\ q[4].v = tokens[5].v /\ w[3].v = tokens[8].v
  <2> HIDE DEF q, w
  <2>1. \A k \in {2, 3, 4, 5, 8} : k \in 1 .. 8
    OBVIOUS
  <2> QED
    BY <1>8, <1>9, <2>1
<1>11. Stamp(record) = tokens[1].v
  BY <1>2, <1>4 DEF Stamp
<1> QED
  BY <1>4, <1>10, <1>11 DEF Orientation, GyroZ

\* What parse_line reads from a G line that parses.
LEMMA GnssRead ==
  ASSUME NEW line, NEW tokens, line.tag = "G", line.tokens = tokens,
         tokens \in Seq(TokenValues), Len(tokens) >= 2, ParseLine(line) # NoRecord,
         \A k \in 1 .. 2 : IsNumber(tokens[k])
  PROVE  LET record == ParseLine(line)
         IN  record.type = "G" /\ Scalar(record, "heading_deg") = tokens[2].v
<1> DEFINE fields == GnssRecord
<1>1. Schema[line.tag] = fields
  BY DEF Schema
<1>2. fields \in Seq(SchemaFields) /\ Len(fields) = 6 /\ DOMAIN fields = 1 .. 6
  BY DEF GnssRecord, Field, SchemaFields, FieldNames, PrintedDecimals
<1>3. /\ fields[1].type = "int" /\ fields[2].type = "float"
      /\ fields[2].name = "heading_deg"
      /\ \A j \in {1, 3, 4, 5, 6} : fields[j].name # "heading_deg"
  BY DEF GnssRecord, Field
<1> HIDE DEF fields
<1>4. PlainNumber(line, 2, fields, tokens)
  <2>1. \A j \in DOMAIN fields : fields[j].name = fields[2].name => j = 2
    <3>1. \A j \in 1 .. 6 : j \in {1, 2, 3, 4, 5, 6}
      OBVIOUS
    <3> QED
      BY <1>2, <1>3, <3>1
  <2>2. \A i \in 1 .. 2 : fields[i].type \in {"int", "float"}
    <3>1. \A i \in 1 .. 2 : i \in {1, 2}
      OBVIOUS
    <3> QED
      BY <1>3, <3>1
  <2>3. 2 \in 1 .. Len(fields) /\ 2 <= Len(tokens) /\ IsNumber(tokens[2])
    BY <1>2
  <2> QED
    BY <1>1, <1>2, <2>1, <2>2, <2>3 DEF PlainNumber
<1> QED
  BY <1>3, <1>4, NumberField

-----------------------------------------------------------------------------
(* The records a reader can hold. *)

PlainRecord(r) == r.type \in {"None", "Diag", "M"}

FusionFacts(r) ==
  /\ r.type = "F" /\ Stamp(r) \in 1 .. MaxLines /\ Scalar(r, "heading_deg") \in {-90, 90}
  /\ Scalar(r, "roll_deg") = 0 /\ Scalar(r, "pitch_deg") = 0

ImuFacts(r) ==
  /\ r.type = "I" /\ Stamp(r) \in 1 .. MaxLines /\ GyroZ(r) \in {0, 90}
  /\ LET euler == QuaternionToEulerZyx(Orientation(r))
     IN  euler.roll \in {0, 90} /\ euler.pitch = 0 /\ euler.yaw = 0

GnssFacts(r) == r.type = "G" /\ Scalar(r, "heading_deg") \in {0, 90}

RecordFacts(r) == PlainRecord(r) \/ FusionFacts(r) \/ ImuFacts(r) \/ GnssFacts(r)

Records == {NoRecord} \cup {Parsed[line] : line \in Lines}

LEMMA ParsedType ==
  ASSUME NEW line
  PROVE  ParseLine(line) # NoRecord /\ ParseLine(line) # DiagRecord =>
           line.tag \in {"F", "I", "M", "G"} /\ ParseLine(line).type = line.tag
<1> SUFFICES ASSUME ParseLine(line) # NoRecord, ParseLine(line) # DiagRecord
             PROVE  line.tag \in {"F", "I", "M", "G"} /\ ParseLine(line).type = line.tag
  OBVIOUS
<1>1. ParseLine(line) = ParseLineAnyWidth(line)
  BY DEF ParseLine
<1>2. line.tag # "#" /\ line.tag \in DOMAIN Schema
  BY <1>1 DEF ParseLineAnyWidth
<1>3. DOMAIN Schema = {"F", "I", "M", "G"}
  BY DEF Schema
<1>4. ParseLineAnyWidth(line).type = line.tag
  <2> HIDE DEF Schema
  <2> QED
    BY <1>1, <1>2, Zenon DEF ParseLineAnyWidth
<1> QED
  BY <1>1, <1>2, <1>3, <1>4

LEMMA FusionLineFacts ==
  ASSUME NEW line, NEW time \in 1 .. MaxLines, NEW heading \in {-90, 90}, NEW extra \in Nat,
         line = Line("F", FusionTokens(time, heading, 0, extra)), ParseLine(line) # NoRecord
  PROVE  FusionFacts(ParseLine(line))
<1> DEFINE tokens == FusionTokens(time, heading, 0, extra)
<1>1. line.tag = "F" /\ line.tokens = tokens
  BY DEF Line
<1>2. /\ tokens \in Seq(TokenValues) /\ Len(tokens) = 15 + extra
      /\ tokens[1] = IntToken(time) /\ tokens[2] = RealToken(heading)
      /\ tokens[3] = RealToken(0) /\ tokens[4] = RealToken(0)
  <2>1. time \in Int /\ heading \in Int /\ 0 \in Int
    OBVIOUS
  <2> QED
    BY <2>1, FusionLineParses
<1> HIDE DEF tokens
<1>3. \A k \in 1 .. 4 : IsNumber(tokens[k])
  <2>1. \A k \in 1 .. 4 : k \in {1, 2, 3, 4}
    OBVIOUS
  <2> QED
    BY <1>2, <2>1 DEF IsNumber, IntToken, RealToken, Decimal
<1>4. /\ tokens[1].v = time /\ tokens[2].v = heading
      /\ tokens[3].v = 0 /\ tokens[4].v = 0
  BY <1>2 DEF IntToken, RealToken, Decimal
<1>5. Len(tokens) >= 4
  BY <1>2
<1> QED
  BY <1>1, <1>2, <1>3, <1>4, <1>5, FusionRead DEF FusionFacts

LEMMA ImuLineFacts ==
  ASSUME NEW line, NEW time \in 1 .. MaxLines, NEW x \in {0, 1}, NEW gyroZ \in {0, 90},
         line = Line("I", ImuTokens(time, x, gyroZ)), ParseLine(line) # NoRecord
  PROVE  ImuFacts(ParseLine(line))
<1> DEFINE tokens == ImuTokens(time, x, gyroZ)
           r == ParseLine(line)
<1>1. line.tag = "I" /\ line.tokens = tokens
  BY DEF Line
<1>2. /\ tokens \in Seq(TokenValues) /\ Len(tokens) = 11
      /\ tokens[1] = IntToken(time) /\ tokens[2] = RealToken(1)
      /\ tokens[3] = RealToken(x) /\ tokens[4] = RealToken(0)
      /\ tokens[5] = RealToken(0) /\ tokens[6] = RealToken(0)
      /\ tokens[7] = RealToken(0) /\ tokens[8] = RealToken(gyroZ)
  <2>1. time \in Int /\ x \in Int /\ gyroZ \in Int
    OBVIOUS
  <2> QED
    BY <2>1, ImuLineParses
<1>3. \A k \in 1 .. 8 : IsNumber(tokens[k])
  <2>1. \A k \in 1 .. 8 : k \in {1, 2, 3, 4, 5, 6, 7, 8}
    OBVIOUS
  <2> HIDE DEF tokens
  <2> QED
    BY <1>2, <2>1 DEF IsNumber, IntToken, RealToken, Decimal
<1> HIDE DEF tokens
<1>4. /\ tokens[1].v = time /\ tokens[2].v = 1 /\ tokens[3].v = x
      /\ tokens[4].v = 0 /\ tokens[5].v = 0 /\ tokens[8].v = gyroZ
  BY <1>2 DEF IntToken, RealToken, Decimal
<1>5. /\ r.type = "I" /\ Stamp(r) = time /\ GyroZ(r) = gyroZ
      /\ Orientation(r) = Quaternion(1, x, 0, 0)
  BY <1>1, <1>2, <1>3, <1>4, ImuRead
<1>6. /\ QuaternionToEulerZyx(Quaternion(1, x, 0, 0)).roll \in {0, 90}
      /\ QuaternionToEulerZyx(Quaternion(1, x, 0, 0)).pitch = 0
      /\ QuaternionToEulerZyx(Quaternion(1, x, 0, 0)).yaw = 0
  BY DEF QuaternionToEulerZyx, Quaternion, Norm2, Atan2
<1> QED
  BY <1>5, <1>6 DEF ImuFacts

LEMMA GnssLineFacts ==
  ASSUME NEW line, NEW time \in 1 .. MaxLines, NEW heading \in {0, 90},
         NEW a, NEW b, NEW c, NEW d, a \in TokenValues, b \in TokenValues, c \in TokenValues,
         d \in TokenValues,
         line = Line("G", <<IntToken(time), RealToken(heading), a, b, c, d>>),
         ParseLine(line) # NoRecord
  PROVE  GnssFacts(ParseLine(line))
<1> DEFINE tokens == <<IntToken(time), RealToken(heading), a, b, c, d>>
<1>1. line.tag = "G" /\ line.tokens = tokens
  BY DEF Line
<1>2. IntToken(time) \in TokenValues /\ RealToken(heading) \in TokenValues
  BY DEF IntToken, RealToken, Decimal, TokenValues
<1>3. /\ tokens \in Seq(TokenValues) /\ Len(tokens) >= 2
      /\ tokens[1] = IntToken(time) /\ tokens[2] = RealToken(heading)
  <2> HIDE DEF TokenValues
  <2> QED
    BY <1>2
<1> HIDE DEF tokens
<1>4. \A k \in 1 .. 2 : IsNumber(tokens[k])
  <2>1. \A k \in 1 .. 2 : k \in {1, 2}
    OBVIOUS
  <2> QED
    BY <1>3, <2>1 DEF IsNumber, IntToken, RealToken, Decimal
<1>5. tokens[2].v = heading
  BY <1>3 DEF RealToken, Decimal
<1> QED
  BY <1>1, <1>3, <1>4, <1>5, GnssRead DEF GnssFacts

\* Whatever line the source hands over, the reader makes a record of it that
\* carries a stamp in range and angles of quarter turns.
LEMMA RecordsAreRead == \A r \in Records : RecordFacts(r)
<1>1. RecordFacts(NoRecord)
  BY DEF RecordFacts, PlainRecord, NoRecord
<1>2. ASSUME NEW kind, NEW time \in 1 .. MaxLines PROVE RecordFacts(ParseLine(Wire(kind, time)))
  <2> DEFINE line == Wire(kind, time)
             r == ParseLine(line)
  <2>1. CASE r = NoRecord \/ r = DiagRecord
    BY <2>1 DEF RecordFacts, PlainRecord, NoRecord, DiagRecord
  <2>2. CASE r # NoRecord /\ r # DiagRecord
    <3>1. line.tag \in {"F", "I", "M", "G"} /\ r.type = line.tag
      BY <2>2, ParsedType
    <3>2. CASE kind \in {"F", "F west", "F board"}
      <4>1. \E heading \in {-90, 90}, extra \in Nat :
              line = Line("F", FusionTokens(time, heading, 0, extra))
        BY <3>2 DEF Wire
      <4> QED
        BY <2>2, <4>1, FusionLineFacts DEF RecordFacts
    <3>3. CASE kind \in {"I", "I turn"}
      <4>1. \E x \in {0, 1}, gyroZ \in {0, 90} : line = Line("I", ImuTokens(time, x, gyroZ))
        BY <3>3 DEF Wire
      <4> QED
        BY <2>2, <4>1, ImuLineFacts DEF RecordFacts
    <3>4. CASE kind = "M"
      <4>1. line.tag = "M"
        BY <3>4 DEF Wire, Line
      <4> QED
        BY <3>1, <4>1 DEF RecordFacts, PlainRecord
    <3>5. CASE kind \in {"G", "G float"}
      <4>1. \E heading \in {0, 90}, a \in TokenValues, b \in TokenValues, c \in TokenValues,
               d \in TokenValues :
              line = Line("G", <<IntToken(time), RealToken(heading), a, b, c, d>>)
        <5>1. /\ RealToken(1) \in TokenValues /\ IntToken(0) \in TokenValues
              /\ IntToken(1) \in TokenValues /\ IntToken(2) \in TokenValues
          BY DEF RealToken, Decimal, IntToken, TokenValues
        <5> QED
          BY <3>5, <5>1 DEF Wire
      <4> QED
        BY <2>2, <4>1, GnssLineFacts DEF RecordFacts
    <3>6. CASE kind \notin {"F", "F west", "F board", "I", "I turn", "M", "G", "G float"}
      <4>1. line.tag = "#" \/ line.tag = kind
        BY <3>6 DEF Wire, Line
      <4> QED
        BY <3>1, <3>6, <4>1
    <3> QED
      BY <3>2, <3>3, <3>4, <3>5, <3>6
  <2> QED
    BY <2>1, <2>2
<1>3. \A line \in Lines : Parsed[line] = ParseLine(Wire(line.kind, line.time))
  BY DEF Parsed
<1>4. \A line \in Lines : line.time \in 1 .. MaxLines
  BY DEF Lines
<1>5. \A line \in Lines : RecordFacts(Parsed[line])
  BY <1>2, <1>3, <1>4
<1> QED
  BY <1>1, <1>5 DEF Records

-----------------------------------------------------------------------------
(* What a record does to a MonitorState. *)

\* p is q with v pushed, the oldest dropped from a full deque.
IsPush(S, p, q, v) ==
  /\ p \in Seq(S) /\ Len(p) > 0 /\ p[Len(p)] = v
  /\ IF Len(q) = MaxLen
       THEN Len(p) = Len(q) /\ \A i \in 1 .. Len(q) - 1 : p[i] = q[i + 1]
       ELSE Len(p) = Len(q) + 1 /\ \A i \in 1 .. Len(q) : p[i] = q[i]

LEMMA PushFacts ==
  ASSUME NEW S, NEW q \in Seq(S), NEW v \in S
  PROVE  IsPush(S, Push(q, v), q, v)
<1>1. CASE Len(q) = MaxLen
  <2>1. Len(q) > 0
    BY <1>1, MaxLenAssumption
  <2>2. /\ Tail(q) \in Seq(S) /\ Len(Tail(q)) = Len(q) - 1
        /\ \A i \in 1 .. Len(q) - 1 : Tail(q)[i] = q[i + 1]
    BY <2>1
  <2>3. Push(q, v) = Append(Tail(q), v)
    BY <1>1 DEF Push
  <2> QED
    BY <1>1, <2>1, <2>2, <2>3 DEF IsPush
<1>2. CASE Len(q) # MaxLen
  <2>1. Push(q, v) = Append(q, v)
    BY <1>2 DEF Push
  <2> QED
    BY <1>2, <2>1 DEF IsPush
<1> QED
  BY <1>1, <1>2

Rolls == {0, 90}
Values(column) == CASE column = "t"       -> 1 .. MaxLines
                    [] column = "heading" -> Quarters
                    [] column = "roll"    -> Rolls
                    [] column = "pitch"   -> {0}

Serieses == [t : Seq(1 .. MaxLines), heading : Seq(Quarters), roll : Seq(Rolls),
             pitch : Seq({0})]
Reckoners == [anchored : BOOLEAN, heading : Quarters, prev : Int]
Monitors ==
  [fused : Serieses, open : Serieses, gnss : [seen : BOOLEAN, heading : Int, valid : BOOLEAN],
   diag : BOOLEAN, latest : Int, seen : Nat, parsed : Nat, error : BOOLEAN,
   dr : Reckoners, drGnss : BOOLEAN]

\* n is m with the value pushed onto one column of one series.
PushedOnly(n, m, series, column, value) ==
  /\ n \in Monitors
  /\ IsPush(Values(column), n[series][column], m[series][column], value)
  /\ \A track \in Tracks, name \in {"t", "heading", "roll", "pitch"} :
       track # series \/ name # column => n[track][name] = m[track][name]
  /\ n.latest = m.latest /\ n.seen = m.seen /\ n.dr = m.dr

LEMMA PushColumnFacts ==
  ASSUME NEW m \in Monitors, NEW series \in Tracks,
         NEW column \in {"t", "heading", "roll", "pitch"}, NEW value \in Values(column)
  PROVE  PushedOnly(PushColumn(m, series, column, value), m, series, column, value)
<1> DEFINE n == PushColumn(m, series, column, value)
           pushed == Push(m[series][column], value)
<1>1. m[series][column] \in Seq(Values(column))
  BY DEF Monitors, Serieses, Tracks, Values
<1>2. IsPush(Values(column), pushed, m[series][column], value)
  BY <1>1, PushFacts
<1>3. pushed \in Seq(Values(column))
  BY <1>2 DEF IsPush
<1>4. n = [m EXCEPT ![series][column] = pushed]
  BY DEF PushColumn
<1> HIDE DEF n, pushed
<1>5. n \in Monitors
  <2>1. m[series] \in Serieses
    BY DEF Monitors, Tracks
  <2>2. [m[series] EXCEPT ![column] = pushed] \in Serieses
    BY <1>3, <2>1 DEF Serieses, Values
  <2>3. n = [m EXCEPT ![series] = [m[series] EXCEPT ![column] = pushed]]
    BY <1>4
  <2> QED
    BY <2>2, <2>3 DEF Monitors, Tracks
<1>6. n[series][column] = pushed
  BY <1>4 DEF Monitors, Serieses, Tracks
<1>7. \A track \in Tracks, name \in {"t", "heading", "roll", "pitch"} :
       track # series \/ name # column => n[track][name] = m[track][name]
  BY <1>4 DEF Monitors, Serieses, Tracks
<1>8. n.latest = m.latest /\ n.seen = m.seen /\ n.dr = m.dr
  BY <1>4 DEF Monitors, Tracks
<1>9. PushedOnly(n, m, series, column, value)
  BY <1>2, <1>5, <1>6, <1>7, <1>8 DEF PushedOnly
<1> QED
  BY <1>9 DEF n

\* A wrapped multiple of a quarter turn is a quarter turn.
LEMMA WrapQuarters == \A k \in Int : Wrap180(90 * k) \in Quarters
<1> SUFFICES ASSUME NEW k \in Int PROVE Wrap180(90 * k) \in Quarters
  OBVIOUS
<1> DEFINE below == (90 * k) \div 360
           rest == (90 * k) % 360
<1>1. below \in Int /\ rest \in 0 .. 359 /\ 90 * k = 360 * below + rest
  OBVIOUS
<1>2. RoundHalfEven(90 * k, 360) =
        IF 2 * rest > 360 \/ (2 * rest = 360 /\ below % 2 = 1) THEN below + 1 ELSE below
  BY DEF RoundHalfEven
<1> HIDE DEF below, rest
<1>3. rest \in {0, 90, 180, 270}
  BY <1>1
<1>4. RoundHalfEven(90 * k, 360) \in {below, below + 1}
      /\ (rest < 180 => RoundHalfEven(90 * k, 360) = below)
      /\ (rest > 180 => RoundHalfEven(90 * k, 360) = below + 1)
  BY <1>2, <1>3
<1> QED
  BY <1>1, <1>3, <1>4 DEF Wrap180, Turn, Quarters

LEMMA AnchorType ==
  ASSUME NEW dr \in Reckoners, NEW heading \in Quarters
  PROVE  Anchor(dr, heading) \in Reckoners
<1>1. \E k \in Int : heading = 90 * k
  BY DEF Quarters
<1>2. Wrap180(heading) \in Quarters
  BY <1>1, WrapQuarters
<1> QED
  BY <1>2 DEF Anchor, Reckoners

LEMMA StepType ==
  ASSUME NEW dr \in Reckoners, NEW time \in Int, NEW gyroZ \in {0, 90}
  PROVE  Step(dr, time, gyroZ) \in Reckoners
<1>1. \E k \in Int : dr.heading - gyroZ * (time - dr.prev) = 90 * k
  <2>1. PICK a \in Int : dr.heading = 90 * a
    BY DEF Reckoners, Quarters
  <2>2. time - dr.prev \in Int
    BY DEF Reckoners
  <2>3. CASE gyroZ = 0
    BY <2>1, <2>2, <2>3
  <2>4. CASE gyroZ = 90
    <3>1. a - (time - dr.prev) \in Int
      BY <2>2
    <3>2. dr.heading - gyroZ * (time - dr.prev) = 90 * (a - (time - dr.prev))
      BY <2>1, <2>2, <2>4
    <3> QED
      BY <3>1, <3>2
  <2> QED
    BY <2>3, <2>4
<1>2. Wrap180(dr.heading - gyroZ * (time - dr.prev)) \in Quarters
  BY <1>1, WrapQuarters
<1> QED
  BY <1>2 DEF Step, Reckoners

LEMMA FreshTypes ==
  /\ FreshMonitor \in Monitors /\ NoRecord \in Records
  /\ \A track \in Tracks, name \in {"t", "heading", "roll", "pitch"} :
       FreshMonitor[track][name] = <<>>
  /\ FreshMonitor.seen = 0 /\ FreshMonitor.latest = NoStamp
<1>1. EmptySeries \in Serieses
  BY DEF EmptySeries, Serieses
<1>2. FreshReckoner \in Reckoners
  BY DEF FreshReckoner, Reckoners, Quarters, NoTime
<1> QED
  BY <1>1, <1>2 DEF FreshMonitor, Monitors, Records, NoStamp, EmptySeries, Tracks

\* An I line steps the dead reckoner, anchored first when it was not yet.
LEMMA ReckonType ==
  ASSUME NEW m \in Monitors, NEW r, ImuFacts(r)
  PROVE  m.fused.t = <<>> \/ m.fused.heading # <<>> => Reckon(m, r) \in Reckoners
<1> SUFFICES ASSUME m.fused.t = <<>> \/ m.fused.heading # <<>>
             PROVE  Reckon(m, r) \in Reckoners
  OBVIOUS
<1> DEFINE seed == IF m.fused.t # <<>> THEN Last(m.fused.heading)
                   ELSE QuaternionToEulerZyx(Orientation(r)).yaw
<1>1. m.dr \in Reckoners /\ m.fused.heading \in Seq(Quarters)
  BY DEF Monitors, Serieses
<1>2. Stamp(r) \in Int /\ GyroZ(r) \in {0, 90}
  BY DEF ImuFacts
<1>3. seed \in Quarters
  <2>1. QuaternionToEulerZyx(Orientation(r)).yaw \in Quarters
    BY DEF ImuFacts, Quarters
  <2>2. m.fused.t # <<>> => Last(m.fused.heading) \in Quarters
    BY <1>1 DEF Last
  <2> QED
    BY <2>1, <2>2
<1> HIDE DEF seed
<1>4. Anchor(m.dr, seed) \in Reckoners
  BY <1>1, <1>3, AnchorType
<1>5. /\ Step(m.dr, Stamp(r), GyroZ(r)) \in Reckoners
      /\ Step(Anchor(m.dr, seed), Stamp(r), GyroZ(r)) \in Reckoners
  BY <1>1, <1>2, <1>4, StepType
<1> QED
  BY <1>5 DEF Reckon, ReckonReanchoring, seed

\* A record without a sample leaves both series, the clock and the counters.
LEMMA PlainUpdate ==
  ASSUME NEW m \in Monitors, NEW r \in Records, r.type \notin {"F", "I"}
  PROVE  LET n == Update(m, r)
         IN  n \in Monitors /\ n.fused = m.fused /\ n.open = m.open /\ n.latest = m.latest
             /\ n.seen = m.seen
<1>1. RecordFacts(r)
  BY RecordsAreRead
<1>2. PlainRecord(r) \/ GnssFacts(r)
  BY <1>1 DEF RecordFacts, FusionFacts, ImuFacts
<1>3. CASE GnssFacts(r)
  <2>1. Update(m, r) = UpdateGnss(m, r)
    BY <1>3 DEF GnssFacts, Update
  <2> DEFINE heading == Scalar(r, "heading_deg")
             valid == Scalar(r, "valid") = 1
             gnss == [seen |-> TRUE, heading |-> heading, valid |-> valid]
             dr == IF valid /\ ~m.drGnss THEN Anchor(m.dr, heading) ELSE m.dr
             drGnss == m.drGnss \/ (valid /\ ~m.drGnss)
  <2>2. heading \in Quarters /\ m.dr \in Reckoners
    BY <1>3 DEF GnssFacts, Quarters, Monitors
  <2>3. dr \in Reckoners
    BY <2>2, AnchorType
  <2>4. gnss \in [seen : BOOLEAN, heading : Int, valid : BOOLEAN]
    <3>1. heading \in Int
      BY <1>3 DEF GnssFacts
    <3>2. valid \in BOOLEAN
      OBVIOUS
    <3> HIDE DEF heading, valid
    <3> QED
      BY <3>1, <3>2
  <2>5. UpdateGnss(m, r) = [m EXCEPT !.gnss = gnss, !.dr = dr, !.drGnss = drGnss]
    BY DEF UpdateGnss
  <2>6. drGnss \in BOOLEAN
    OBVIOUS
  <2> HIDE DEF gnss, dr, drGnss
  <2> DEFINE n == [m EXCEPT !.gnss = gnss, !.dr = dr, !.drGnss = drGnss]
  <2>7. n \in Monitors
    BY <2>3, <2>4, <2>6 DEF Monitors
  <2>8. n.fused = m.fused /\ n.open = m.open /\ n.latest = m.latest /\ n.seen = m.seen
    BY DEF Monitors
  <2>9. Update(m, r) = n
    BY <2>1, <2>5
  <2> HIDE DEF n
  <2> QED
    BY <2>7, <2>8, <2>9
<1>4. CASE PlainRecord(r)
  <2>1. Update(m, r) = m \/ Update(m, r) = [m EXCEPT !.diag = TRUE]
    BY <1>4 DEF PlainRecord, Update
  <2> QED
    BY <2>1 DEF Monitors
<1> QED
  BY <1>2, <1>3, <1>4

-----------------------------------------------------------------------------
(* The inductive invariant. *)

Columns == {"t", "heading", "roll", "pitch"}
GuiPcs == {"idle", "fused", "open", "panel", "paint", "fix", "heading", "arrow", "title"}
ReaderPcs == {"none", "pull", "parse", "lock", "heading", "rest", "done", "failed"}

Configs == [Sessions -> [source : {"none", "serial", "replay"}, align : BOOLEAN,
                         record : BOOLEAN]]
Readers == [Sessions -> [pc : ReaderPcs, record : Records]]
Sinks == [Sessions -> [open : BOOLEAN, lines : Seq(Lines)]]
Copies == [now : Int, t : [Tracks -> Seq(1 .. MaxLines)], values : [Tracks -> Seq(Int)]]

\* What the drawing keeps in its hands.
Guis == [pc : GuiPcs, panel : 1 .. Len(Panels), copy : Copies, grown : BOOLEAN]

TypeInv ==
  /\ ui \in {"menu", "live", "closing", "joining", "gone"}
  /\ session \in 0 .. MaxSessions /\ menu \in BOOLEAN
  /\ config \in Configs /\ reader \in Readers /\ sink \in Sinks
  /\ state \in [Sessions -> Monitors]
  /\ lock \in [Sessions -> {"free", "reader", "gui"}]
  /\ handed \in [Sessions -> Seq(Lines)]
  /\ gui \in Guis
  /\ "lines" \in DOMAIN view

\* The window draws only while it is open, and then there is a session.
WindowInv ==
  /\ gui.pc # "idle" => ui = "live"
  /\ InSession => session \in Sessions

\* A session not yet opened is as the process found it.
FreshInv ==
  \A s \in Sessions : s > session =>
    /\ state[s] = FreshMonitor /\ reader[s].pc = "none"
    /\ sink[s].lines = <<>> /\ handed[s] = <<>> /\ lock[s] = "free"

Mid(s) == reader[s].pc \in {"heading", "rest"}

\* The lock is held while a sample is half appended and while a panel is copied.
LockInv ==
  \A s \in Sessions :
    /\ lock[s] = "reader" <=> Mid(s)
    /\ lock[s] = "gui" <=> s = session /\ gui.pc \in {"fused", "open"}
    /\ Mid(s) => reader[s].record.type \in {"F", "I"}

\* The column of a half appended sample that is still to come.
Missing(s, track, name) ==
  /\ Mid(s) /\ SeriesOf(reader[s].record) = track
  /\ name \in {"roll", "pitch"} \/ (name = "heading" /\ reader[s].pc = "heading")

\* The columns of a series are of one length, but for the sample being appended.
OneLength(s, track) ==
  /\ Len(state[s][track].t) <= MaxLen
  /\ Mid(s) /\ SeriesOf(reader[s].record) = track => state[s][track].t # <<>>
  /\ \A name \in Columns :
       IF Missing(s, track, name)
         THEN Len(state[s][track].t) =
                IF Len(state[s][track][name]) = MaxLen THEN MaxLen
                ELSE Len(state[s][track][name]) + 1
         ELSE Len(state[s][track][name]) = Len(state[s][track].t)

ColumnInv == \A s \in Sessions, track \in Tracks : OneLength(s, track)

LiveInv == TypeInv /\ WindowInv /\ FreshInv /\ LockInv /\ ColumnInv

\* The capture is what the source handed over, but for a line handed to a reader
\* that its session left behind.
CaptureInv ==
  \A s \in Sessions : config[s].record =>
    /\ \/ handed[s] = sink[s].lines
       \/ /\ ~sink[s].open /\ reader[s].pc \in {"failed", "none"}
          /\ \E line \in Lines : handed[s] = Append(sink[s].lines, line)
    /\ state[s].seen <= Len(sink[s].lines)
    /\ reader[s].pc = "parse" => state[s].seen < Len(sink[s].lines)

\* While a panel is copied, the copies are the session's columns.
CopyInv ==
  /\ gui.pc \in {"fused", "open"} =>
       /\ gui.copy.now = IF Shown.latest = NoStamp THEN 0 ELSE Shown.latest
       /\ gui.copy.t["fused"] = Shown.fused.t
  /\ gui.pc = "open" =>
       /\ gui.copy.values["fused"] = Shown.fused[Panel]
       /\ gui.copy.t["open"] = Shown.open.t

LEMMA SnapshotTypes ==
  Snapshot \in Copies /\ IdleGui \in Guis
<1>1. Snapshot \in Copies
  BY DEF Snapshot, Copies, Tracks
<1>2. 1 \in 1 .. Len(Panels)
  BY LiveAssumption
<1> QED
  BY <1>1, <1>2 DEF IdleGui, GuiPcs, Guis

LEMMA FreshViewLines == "lines" \in DOMAIN FreshView
BY DEF FreshView

LEMMA TypeInit == LiveInit => TypeInv
<1> SUFFICES ASSUME LiveInit PROVE TypeInv
  OBVIOUS
<1> USE DEF LiveInit
<1>1. state \in [Sessions -> Monitors] /\ reader \in Readers
  BY FreshTypes DEF NoRecordHeld, ReaderPcs, Readers
<1>2. session \in 0 .. MaxSessions
  BY LiveAssumption
<1>3. config \in Configs /\ sink \in Sinks
  BY DEF Configs, Sinks
<1> QED
  BY <1>1, <1>2, <1>3, SnapshotTypes, FreshViewLines DEF TypeInv

\* A reader moves to another place in its loop.
LEMMA ReaderMoves ==
  ASSUME reader \in Readers, NEW s \in Sessions, NEW pc \in ReaderPcs
  PROVE  [reader EXCEPT ![s].pc = pc] \in Readers
BY DEF Readers

LEMMA ReaderDrops ==
  ASSUME reader \in Readers, NEW s \in Sessions, NEW pc \in ReaderPcs
  PROVE  [reader EXCEPT ![s] = [NoRecordHeld EXCEPT !.pc = pc]] \in Readers
<1>1. [NoRecordHeld EXCEPT !.pc = pc] \in [pc : ReaderPcs, record : Records]
  BY FreshTypes DEF NoRecordHeld
<1> QED
  BY <1>1 DEF Readers

LEMMA RaiseTypes ==
  ASSUME TypeInv, NEW s \in Sessions, Raise(s)
  PROVE  reader' \in Readers /\ state' \in [Sessions -> Monitors]
<1>1. "failed" \in ReaderPcs
  BY DEF ReaderPcs
<1>2. reader' \in Readers
  BY <1>1, ReaderDrops DEF Raise, TypeInv
<1>3. [state[s] EXCEPT !.error = TRUE] \in Monitors
  BY ZenonT(30) DEF TypeInv, Monitors
<1>4. state' \in [Sessions -> Monitors]
  BY <1>3 DEF Raise, TypeInv
<1> QED
  BY <1>2, <1>4

LEMMA TypeMain ==
  ASSUME LiveInv, MainStep
  PROVE  TypeInv'
<1> USE DEF LiveInv
<1>1. ASSUME Exit PROVE TypeInv'
  <2>1. state' \in [Sessions -> Monitors]
        /\ reader' \in Readers
    BY <1>1, FreshTypes DEF Exit, NoRecordHeld, ReaderPcs, Readers
  <2>2. sink' \in Sinks
    BY <1>1 DEF Exit, TypeInv, Sinks
  <2> QED
    BY <1>1, <2>1, <2>2, SnapshotTypes, FreshViewLines DEF Exit, TypeInv
<1>2. CASE OpenSession
  <2>1. session + 1 \in Sessions /\ session' = session + 1
    BY <1>2, LiveAssumption DEF OpenSession, TypeInv, Sessions
  <2>2. PICK choice \in [source : {"serial", "replay"}, align : BOOLEAN, record : BOOLEAN] :
          /\ config' = [config EXCEPT ![session + 1] = choice]
          /\ sink' = [sink EXCEPT ![session + 1].open = choice.record]
    BY <1>2 DEF OpenSession
  <2>3. config' \in Configs
        /\ sink' \in Sinks
    BY <2>1, <2>2 DEF TypeInv, Configs, Sinks
  <2>4. reader' \in Readers
    <3>1. reader' = [reader EXCEPT ![session + 1].pc = "pull"]
      BY <1>2 DEF OpenSession
    <3>2. "pull" \in ReaderPcs
      BY DEF ReaderPcs
    <3> QED
      BY <2>1, <3>1, <3>2, ReaderMoves DEF TypeInv
  <2>5. session' \in 0 .. MaxSessions
    BY <2>1, LiveAssumption DEF Sessions
  <2> QED
    BY <1>2, <2>3, <2>4, <2>5, FreshViewLines DEF OpenSession, TypeInv
<1>3. CASE NoBoardFound
  BY <1>1, <1>3 DEF NoBoardFound
<1>4. CASE Quit
  BY <1>1, <1>4 DEF Quit
<1>5. CASE CloseWindow
  BY <1>5 DEF CloseWindow, TypeInv, sourceVars
<1>6. CASE CloseSource
  BY <1>6 DEF CloseSource, TypeInv
<1>7. CASE Join
  <2>1. CASE ~menu
    BY <1>1, <1>7, <2>1 DEF Join
  <2>2. CASE menu
    <3>1. state' \in [Sessions -> Monitors]
      BY <1>7, <2>2, FreshTypes DEF Join, TypeInv
    <3>2. sink' \in Sinks
      <4>1. sink' = [sink EXCEPT ![session].open = FALSE]
        BY <1>7, <2>2 DEF Join
      <4> QED
        BY <4>1 DEF TypeInv, Sinks
    <3>3. config' \in Configs
      <4>1. config' = [config EXCEPT ![session].align = FALSE]
        BY <1>7, <2>2 DEF Join
      <4> QED
        BY <4>1 DEF TypeInv, Configs
    <3> QED
      BY <1>7, <2>2, <3>1, <3>2, <3>3, FreshViewLines DEF Join, TypeInv
  <2> QED
    BY <2>1, <2>2
<1>8. CASE AlignAborts
  BY <1>1, <1>8 DEF AlignAborts
<1> QED
  BY <1>2, <1>3, <1>4, <1>5, <1>6, <1>7, <1>8 DEF MainStep

LEMMA TypeReader ==
  ASSUME LiveInv, NEW s \in Sessions, ReaderStep(s)
  PROVE  TypeInv'
<1> USE DEF LiveInv
<1>1. ASSUME Raise(s) PROVE reader' \in Readers /\ state' \in [Sessions -> Monitors]
  BY <1>1, RaiseTypes
<1>2. CASE Receive(s)
  <2>1. PICK kind \in KindsOf(s) :
          /\ handed' = [handed EXCEPT ![s] = Append(@, [kind |-> kind, time |-> Handed + 1])]
          /\ Tee(s, [kind |-> kind, time |-> Handed + 1])
    BY <1>2 DEF Receive
  <2> DEFINE line == [kind |-> kind, time |-> Handed + 1]
  <2>2. line \in Lines
    <3>1. Handed + 1 \in 1 .. MaxLines
      BY <1>2, LiveAssumption DEF Receive
    <3>2. kind \in SerialKinds \cup ReplayKinds \cup MenuKinds
      BY DEF KindsOf
    <3> QED
      BY <3>1, <3>2 DEF Lines
  <2> HIDE DEF line
  <2>3. Parsed[line] \in Records
    BY <2>2 DEF Records
  <2>4. handed' = [handed EXCEPT ![s] = Append(@, line)] /\ Tee(s, line)
    BY <2>1 DEF line
  <2>5. handed' \in [Sessions -> Seq(Lines)]
    BY <2>2, <2>4 DEF TypeInv
  <2>6. reader' \in Readers /\ state' \in [Sessions -> Monitors] /\ sink' \in Sinks
    <3>1. CASE Raise(s) /\ UNCHANGED sink
      BY <1>1, <3>1 DEF TypeInv
    <3>2. CASE ~(Raise(s) /\ UNCHANGED sink)
      <4>1. /\ sink' = IF config[s].record THEN [sink EXCEPT ![s].lines = Append(@, line)]
                       ELSE sink
            /\ reader' = [reader EXCEPT ![s] = [pc |-> "parse", record |-> Parsed[line]]]
            /\ UNCHANGED state
        BY <2>4, <3>2 DEF Tee
      <4>2. [pc |-> "parse", record |-> Parsed[line]] \in [pc : ReaderPcs, record : Records]
        BY <2>3 DEF ReaderPcs
      <4>3. reader' \in Readers
        BY <4>1, <4>2 DEF TypeInv, Readers
      <4>4. sink' \in Sinks
        <5>1. Append(sink[s].lines, line) \in Seq(Lines) /\ sink[s].open \in BOOLEAN
          BY <2>2 DEF TypeInv, Sinks
        <5>2. [sink[s] EXCEPT !.lines = Append(@, line)]
                \in [open : BOOLEAN, lines : Seq(Lines)]
          BY <5>1 DEF TypeInv, Sinks
        <5> QED
          BY <4>1, <5>2 DEF TypeInv, Sinks
      <4> QED
        BY <4>1, <4>3, <4>4 DEF TypeInv
    <3> QED
      BY <3>1, <3>2
  <2> QED
    BY <1>2, <2>5, <2>6 DEF Receive, TypeInv, mainVars
<1>3. CASE Unplug(s)
  BY <1>1, <1>3 DEF Unplug, TypeInv, mainVars, sourceVars
<1>4. CASE Exhaust(s)
  <2>1. "done" \in ReaderPcs
    BY DEF ReaderPcs
  <2>2. reader' \in Readers
    BY <1>4, <2>1, ReaderMoves DEF Exhaust, TypeInv
  <2> QED
    BY <1>4, <2>2 DEF Exhaust, TypeInv, mainVars, sourceVars
<1>5. CASE Parse(s)
  <2>1. state' \in [Sessions -> Monitors]
    <3>1. /\ [state[s] EXCEPT !.seen = @ + 1] \in Monitors
          /\ [state[s] EXCEPT !.seen = @ + 1, !.parsed = @ + 1] \in Monitors
      <4>1. state[s] \in Monitors
        BY DEF TypeInv
      <4>2. state[s].seen + 1 \in Nat /\ state[s].parsed + 1 \in Nat
        BY <4>1 DEF Monitors
      <4> QED
        BY <4>1, <4>2 DEF Monitors
    <3>2. state' \in {[state EXCEPT ![s] = [state[s] EXCEPT !.seen = @ + 1]],
                      [state EXCEPT ![s] = [state[s] EXCEPT !.seen = @ + 1, !.parsed = @ + 1]]}
      BY <1>5 DEF Parse, TypeInv
    <3> QED
      BY <3>1, <3>2 DEF TypeInv
  <2>2. reader' \in Readers
    <3>1. "pull" \in ReaderPcs /\ "lock" \in ReaderPcs
      BY DEF ReaderPcs
    <3> QED
      BY <1>5, <3>1, ReaderMoves DEF Parse, TypeInv
  <2> QED
    BY <1>5, <2>1, <2>2 DEF Parse, TypeInv, mainVars, sourceVars
<1>6. ASSUME reader' = [reader EXCEPT ![s] = [NoRecordHeld EXCEPT !.pc = "pull"]]
      PROVE  reader' \in Readers
  <2>1. "pull" \in ReaderPcs
    BY DEF ReaderPcs
  <2> QED
    BY <1>6, <2>1, ReaderDrops DEF TypeInv
<1>7. CASE Apply(s)
  <2>1. Update(state[s], reader[s].record) \in Monitors
    BY <1>7, PlainUpdate DEF Apply, TypeInv, Readers
  <2>2. state' \in [Sessions -> Monitors]
    BY <1>7, <2>1 DEF Apply, TypeInv
  <2> QED
    BY <1>6, <1>7, <2>2 DEF Apply, TypeInv, mainVars, sourceVars
<1> DEFINE record == reader[s].record
           series == SeriesOf(record)
<1>8. /\ state[s] \in Monitors /\ series \in Tracks
      /\ FusionFacts(record) \/ ImuFacts(record) \/ record.type \notin {"F", "I"}
  <2>1. record \in Records /\ state[s] \in Monitors
    BY DEF TypeInv, Readers
  <2> QED
    BY <2>1, RecordsAreRead DEF RecordFacts, PlainRecord, GnssFacts, SeriesOf, Tracks
<1>9. CASE AppendTime(s)
  <2> DEFINE dr == IF record.type = "I" THEN Reckon(state[s], record) ELSE state[s].dr
             stepped == [state[s] EXCEPT !.dr = dr]
  <2>1. record.type \in {"F", "I"} /\ Stamp(record) \in 1 .. MaxLines
    BY <1>8, <1>9 DEF AppendTime, FusionFacts, ImuFacts
  <2>2. dr \in Reckoners
    <3>1. CASE record.type = "F"
      BY <1>8, <3>1 DEF Monitors
    <3>2. CASE record.type = "I"
      <4>1. ImuFacts(record)
        BY <1>8, <3>2 DEF FusionFacts
      <4>2. state[s].fused.t = <<>> \/ state[s].fused.heading # <<>>
        <5>1. ~Mid(s)
          BY <1>9 DEF AppendTime, Mid
        <5>2. Len(state[s]["fused"]["heading"]) = Len(state[s]["fused"].t)
          BY <5>1 DEF ColumnInv, OneLength, Missing, Tracks, Columns
        <5>3. state[s].fused.t \in Seq(1 .. MaxLines) /\ state[s].fused.heading \in Seq(Quarters)
          BY <1>8 DEF Monitors, Serieses
        <5> QED
          BY <5>2, <5>3
      <4> QED
        BY <1>8, <3>2, <4>1, <4>2, ReckonType
    <3> QED
      BY <2>1, <3>1, <3>2
  <2> HIDE DEF dr
  <2>3. stepped \in Monitors
    BY <1>8, <2>2 DEF Monitors
  <2>4. PushColumn(stepped, series, "t", Stamp(record)) \in Monitors
    <3>1. Stamp(record) \in Values("t")
      BY <2>1 DEF Values
    <3> HIDE DEF stepped, series
    <3> QED
      BY <1>8, <2>3, <3>1, PushColumnFacts DEF PushedOnly
  <2>5. state' = [state EXCEPT ![s] = PushColumn(stepped, series, "t", Stamp(record))]
    BY <1>9 DEF AppendTime, TypeInv, dr
  <2>6. state' \in [Sessions -> Monitors]
    BY <2>4, <2>5 DEF TypeInv
  <2>7. reader' \in Readers
    <3>1. "heading" \in ReaderPcs
      BY DEF ReaderPcs
    <3> QED
      BY <1>9, <3>1, ReaderMoves DEF AppendTime, TypeInv
  <2> QED
    BY <1>9, <2>6, <2>7 DEF AppendTime, TypeInv, mainVars, sourceVars
<1>10. Mid(s) => /\ Pending(s).t \in 1 .. MaxLines /\ Pending(s).heading \in Values("heading")
                 /\ Pending(s).roll \in Values("roll") /\ Pending(s).pitch \in Values("pitch")
                 /\ Pending(s).t = Stamp(record)
  <2> SUFFICES ASSUME Mid(s)
               PROVE  /\ Pending(s).t \in 1 .. MaxLines
                      /\ Pending(s).heading \in Values("heading")
                      /\ Pending(s).roll \in Values("roll")
                      /\ Pending(s).pitch \in Values("pitch")
                      /\ Pending(s).t = Stamp(record)
    OBVIOUS
  <2>1. FusionFacts(record) \/ ImuFacts(record)
    BY <1>8 DEF LockInv
  <2>2. CASE FusionFacts(record)
    BY <2>2 DEF FusionFacts, Pending, SampleOf, Values, Quarters, Rolls
  <2>3. CASE ImuFacts(record)
    BY <1>8, <2>3 DEF ImuFacts, Pending, SampleOf, Values, Rolls, Monitors, Reckoners
  <2> QED
    BY <2>1, <2>2, <2>3
<1>11. CASE AppendHeading(s)
  <2>1. Mid(s)
    BY <1>11 DEF AppendHeading, Mid
  <2>2. PushColumn(state[s], series, "heading", Pending(s).heading) \in Monitors
    BY <1>8, <1>10, <2>1, PushColumnFacts DEF PushedOnly
  <2>3. state' \in [Sessions -> Monitors]
    BY <1>11, <2>2 DEF AppendHeading, TypeInv
  <2>4. reader' \in Readers
    <3>1. "rest" \in ReaderPcs
      BY DEF ReaderPcs
    <3> QED
      BY <1>11, <3>1, ReaderMoves DEF AppendHeading, TypeInv
  <2> QED
    BY <1>11, <2>3, <2>4 DEF AppendHeading, TypeInv, mainVars, sourceVars
<1>12. CASE AppendRest(s)
  <2>1. Mid(s)
    BY <1>12 DEF AppendRest, Mid
  <2> DEFINE rolled == PushColumn(state[s], series, "roll", Pending(s).roll)
             whole == PushColumn(rolled, series, "pitch", Pending(s).pitch)
  <2>2. rolled \in Monitors
    BY <1>8, <1>10, <2>1, PushColumnFacts DEF PushedOnly
  <2> HIDE DEF rolled
  <2>3. whole \in Monitors
    BY <1>8, <1>10, <2>1, <2>2, PushColumnFacts DEF PushedOnly
  <2>4. state' = [state EXCEPT ![s] = [whole EXCEPT !.latest = Pending(s).t]]
    BY <1>12 DEF AppendRest, TypeInv, rolled
  <2> HIDE DEF whole
  <2>5. [whole EXCEPT !.latest = Pending(s).t] \in Monitors
    BY <1>10, <2>1, <2>3 DEF Monitors
  <2>6. state' \in [Sessions -> Monitors]
    BY <2>4, <2>5 DEF TypeInv
  <2> QED
    BY <1>6, <1>12, <2>6 DEF AppendRest, TypeInv, mainVars, sourceVars
<1> QED
  BY <1>2, <1>3, <1>4, <1>5, <1>7, <1>9, <1>11, <1>12 DEF ReaderStep, Drains

LEMMA PanelFacts ==
  TypeInv => Panel \in {"heading", "roll", "pitch"} /\ Panel \in Range(Panels)
<1> SUFFICES ASSUME TypeInv PROVE Panel \in {"heading", "roll", "pitch"} /\ Panel \in Range(Panels)
  OBVIOUS
<1>1. gui.panel \in DOMAIN Panels
  BY LiveAssumption DEF TypeInv, Guis
<1> QED
  BY <1>1, LiveAssumption DEF Panel, Range

LEMMA WiderSeq ==
  ASSUME NEW S, NEW T, NEW q \in Seq(S), S \subseteq T
  PROVE  q \in Seq(T)
<1>1. \A i \in 1 .. Len(q) : q[i] \in T
  OBVIOUS
<1>2. Len(q) \in Nat /\ DOMAIN q = 1 .. Len(q) /\ q = [i \in 1 .. Len(q) |-> q[i]]
  OBVIOUS
<1> QED
  BY <1>1, <1>2

LEMMA ShownTypes ==
  ASSUME TypeInv, session \in Sessions
  PROVE  /\ Shown \in Monitors
         /\ \A track \in Tracks : Shown[track].t \in Seq(1 .. MaxLines)
                                 /\ Shown[track][Panel] \in Seq(Int)
         /\ (IF Shown.latest = NoStamp THEN 0 ELSE Shown.latest) \in Int
<1>1. Shown \in Monitors
  BY DEF TypeInv, Shown
<1>2. Panel \in {"heading", "roll", "pitch"}
  BY PanelFacts
<1>3. ASSUME NEW track \in Tracks
      PROVE  Shown[track].t \in Seq(1 .. MaxLines) /\ Shown[track][Panel] \in Seq(Int)
  <2>1. Shown[track] \in Serieses
    BY <1>1 DEF Monitors, Tracks
  <2>2. Shown[track].heading \in Seq(Quarters) /\ Shown[track].roll \in Seq(Rolls)
        /\ Shown[track].pitch \in Seq({0}) /\ Shown[track].t \in Seq(1 .. MaxLines)
    BY <2>1 DEF Serieses
  <2>3. Quarters \subseteq Int /\ Rolls \subseteq Int /\ {0} \subseteq Int
    BY DEF Quarters, Rolls
  <2>4. /\ Shown[track].heading \in Seq(Int) /\ Shown[track].roll \in Seq(Int)
        /\ Shown[track].pitch \in Seq(Int)
    BY <2>2, <2>3, WiderSeq
  <2> QED
    BY <1>2, <2>2, <2>4
<1>4. (IF Shown.latest = NoStamp THEN 0 ELSE Shown.latest) \in Int
  BY <1>1 DEF Monitors
<1> QED
  BY <1>1, <1>3, <1>4

LEMMA TypeGui ==
  ASSUME LiveInv, GuiStep
  PROVE  TypeInv'
<1> USE DEF LiveInv
<1>1. session \in Sessions
  BY DEF GuiStep, FirstPaint, SnapshotBegin, SnapshotFused, SnapshotOpen, Paint, DrawTriad,
         DrawHeading, ReadFix, DrawArrow, AlignTitle, Painting, Aligning, WindowInv, InSession
<1>2. /\ Shown \in Monitors
      /\ \A track \in Tracks : Shown[track].t \in Seq(1 .. MaxLines)
                              /\ Shown[track][Panel] \in Seq(Int)
      /\ (IF Shown.latest = NoStamp THEN 0 ELSE Shown.latest) \in Int
  BY <1>1, ShownTypes
<1>3. gui \in Guis /\ gui.copy \in Copies
  BY DEF TypeInv, Guis
<1>4. ASSUME NEW pc \in GuiPcs PROVE [gui EXCEPT !.pc = pc] \in Guis
  BY <1>3 DEF Guis
<1>5. ASSUME NEW pc \in GuiPcs, NEW copy \in Copies
      PROVE  [gui EXCEPT !.pc = pc, !.copy = copy] \in Guis
  BY <1>3 DEF Guis
<1>6. /\ "fused" \in GuiPcs /\ "open" \in GuiPcs /\ "paint" \in GuiPcs /\ "panel" \in GuiPcs
      /\ "title" \in GuiPcs /\ "fix" \in GuiPcs /\ "heading" \in GuiPcs /\ "arrow" \in GuiPcs
  BY DEF GuiPcs
<1>7. /\ \A x : "lines" \in DOMAIN [view EXCEPT !.painted = x]
      /\ "lines" \in DOMAIN view
  BY DEF TypeInv
<1>8. CASE FirstPaint
  <2>1. "lines" \in DOMAIN view'
    BY <1>7, <1>8 DEF FirstPaint
  <2> QED
    BY <1>8, <2>1 DEF FirstPaint, TypeInv, mainVars, sourceVars
<1>9. CASE SnapshotBegin
  <2> DEFINE now == IF Shown.latest = NoStamp THEN 0 ELSE Shown.latest
             copy == [Snapshot EXCEPT !.now = now, !.t["fused"] = Shown.fused.t]
  <2>1. copy \in Copies
    <3>1. now \in Int /\ Shown.fused.t \in Seq(1 .. MaxLines)
      BY <1>2 DEF Tracks
    <3> HIDE DEF now
    <3> QED
      BY <3>1, SnapshotTypes DEF Copies, Tracks
  <2>2. gui' = [gui EXCEPT !.pc = "fused", !.copy = copy]
    BY <1>9 DEF SnapshotBegin
  <2> HIDE DEF copy
  <2>3. gui' \in Guis
    BY <1>5, <1>6, <2>1, <2>2
  <2>4. lock' \in [Sessions -> {"free", "reader", "gui"}]
    BY <1>9 DEF SnapshotBegin, TypeInv
  <2> QED
    BY <1>9, <2>3, <2>4 DEF SnapshotBegin, TypeInv, mainVars, sourceVars
<1>10. CASE SnapshotFused
  <2> DEFINE copy == [gui.copy EXCEPT !.values["fused"] = Shown.fused[Panel],
                                      !.t["open"] = Shown.open.t]
  <2>1. copy \in Copies
    <3>1. Shown.fused[Panel] \in Seq(Int) /\ Shown.open.t \in Seq(1 .. MaxLines)
      BY <1>2 DEF Tracks
    <3> QED
      BY <1>3, <3>1 DEF Copies, Tracks
  <2>2. gui' = [gui EXCEPT !.pc = "open", !.copy = copy]
    BY <1>3, <1>10 DEF SnapshotFused, Guis, Copies
  <2> HIDE DEF copy
  <2>3. gui' \in Guis
    BY <1>5, <1>6, <2>1, <2>2
  <2> QED
    BY <1>10, <2>3 DEF SnapshotFused, TypeInv, mainVars, sourceVars
<1>11. CASE SnapshotOpen
  <2>1. gui'.pc \in GuiPcs /\ gui'.panel \in 1 .. Len(Panels)
    BY <1>3, <1>6, <1>11, LiveAssumption DEF SnapshotOpen, Guis
  <2>2. gui'.grown \in BOOLEAN /\ gui'.copy = Snapshot
    BY <1>3, <1>11 DEF SnapshotOpen, Guis
  <2>3. gui' = [pc |-> gui'.pc, panel |-> gui'.panel, copy |-> gui'.copy, grown |-> gui'.grown]
    BY <1>11 DEF SnapshotOpen
  <2>4. gui' \in Guis
    BY <2>1, <2>2, <2>3, SnapshotTypes DEF Guis
  <2>5. lock' \in [Sessions -> {"free", "reader", "gui"}]
    BY <1>11 DEF SnapshotOpen, TypeInv
  <2>6. "lines" \in DOMAIN view'
    BY <1>7, <1>11 DEF SnapshotOpen
  <2> QED
    BY <1>11, <2>4, <2>5, <2>6 DEF SnapshotOpen, TypeInv, mainVars, sourceVars
<1>12. CASE Paint
  <2>1. "lines" \in DOMAIN view'
    BY <1>7, <1>12 DEF Paint
  <2> QED
    BY <1>12, <2>1, SnapshotTypes DEF Paint, TypeInv, mainVars, sourceVars
<1>13. CASE DrawTriad
  <2>1. "lines" \in DOMAIN view'
    BY <1>7, <1>13 DEF DrawTriad
  <2>2. gui' \in Guis
    BY <1>4, <1>6, <1>13 DEF DrawTriad
  <2>3. [Shown EXCEPT !.error = @ \/ HalfAppended] \in Monitors
    <3> DEFINE told == Shown.error \/ HalfAppended
    <3>1. told \in BOOLEAN
      OBVIOUS
    <3> HIDE DEF told
    <3>2. [Shown EXCEPT !.error = told] \in Monitors
      BY <1>2, <3>1 DEF Monitors
    <3> QED
      BY <3>2 DEF told
  <2>4. state' = [state EXCEPT ![session] = [Shown EXCEPT !.error = @ \/ HalfAppended]]
    BY <1>13 DEF DrawTriad, Shown
  <2>5. state' \in [Sessions -> Monitors]
    BY <2>3, <2>4 DEF TypeInv
  <2> QED
    BY <1>13, <2>1, <2>2, <2>5 DEF DrawTriad, TypeInv, mainVars, sourceVars
<1>14. CASE DrawHeading
  <2>1. "lines" \in DOMAIN view'
    BY <1>7, <1>14 DEF DrawHeading
  <2> QED
    BY <1>4, <1>6, <1>14, <2>1 DEF DrawHeading, TypeInv, mainVars, sourceVars
<1>15. CASE ReadFix
  <2>1. "lines" \in DOMAIN view'
    BY <1>7, <1>15 DEF ReadFix
  <2> QED
    BY <1>4, <1>6, <1>15, <2>1 DEF ReadFix, TypeInv, mainVars, sourceVars
<1>16. CASE DrawArrow
  <2>1. "lines" \in DOMAIN view'
    BY <1>7, <1>16 DEF DrawArrow
  <2> QED
    BY <1>4, <1>6, <1>16, <2>1 DEF DrawArrow, TypeInv, mainVars, sourceVars
<1>17. CASE AlignTitle
  <2>1. "lines" \in DOMAIN view'
    BY <1>7, <1>17 DEF AlignTitle
  <2> QED
    BY <1>17, <2>1, SnapshotTypes DEF AlignTitle, TypeInv, mainVars, sourceVars
<1> QED
  BY <1>8, <1>9, <1>10, <1>11, <1>12, <1>13, <1>14, <1>15, <1>16, <1>17 DEF GuiStep

\* A reader's step changes its own session only, and nothing of the main thread.
LEMMA ReaderFrame ==
  ASSUME TypeInv, NEW s \in Sessions, ReaderStep(s)
  PROVE  /\ UNCHANGED <<ui, session, menu, config, ended, gui, view>>
         /\ \A t \in Sessions \ {s} :
              /\ reader'[t] = reader[t] /\ state'[t] = state[t] /\ lock'[t] = lock[t]
              /\ sink'[t] = sink[t] /\ handed'[t] = handed[t]
<1> USE DEF TypeInv, mainVars, sourceVars
<1> DEFINE same == \A t \in Sessions \ {s} :
              /\ reader'[t] = reader[t] /\ state'[t] = state[t] /\ lock'[t] = lock[t]
              /\ sink'[t] = sink[t] /\ handed'[t] = handed[t]
           still == UNCHANGED <<ui, session, menu, config, ended, gui, view>>
<1>1. CASE Receive(s)
  <2>1. PICK line : handed' = [handed EXCEPT ![s] = Append(@, line)] /\ Tee(s, line)
    BY <1>1 DEF Receive
  <2>2. same
    BY <1>1, <2>1 DEF Receive, Tee, Raise, Sinks, Readers
  <2> QED
    BY <1>1, <2>2 DEF Receive
<1>2. CASE Unplug(s)
  BY <1>2 DEF Unplug, Raise, Readers
<1>3. CASE Exhaust(s)
  BY <1>3 DEF Exhaust, Readers
<1>4. CASE Parse(s)
  <2>1. same
    BY <1>4 DEF Parse, Readers
  <2> QED
    BY <1>4, <2>1 DEF Parse
<1>5. CASE Apply(s)
  <2>1. same
    BY <1>5 DEF Apply, Readers
  <2> QED
    BY <1>5, <2>1 DEF Apply
<1>6. CASE AppendTime(s)
  <2>1. same
    BY <1>6 DEF AppendTime, Readers
  <2> QED
    BY <1>6, <2>1 DEF AppendTime
<1>7. CASE AppendHeading(s)
  <2>1. same
    BY <1>7 DEF AppendHeading, Readers
  <2> QED
    BY <1>7, <2>1 DEF AppendHeading
<1>8. CASE AppendRest(s)
  <2>1. same
    BY <1>8 DEF AppendRest, Readers
  <2> QED
    BY <1>8, <2>1 DEF AppendRest
<1> QED
  BY <1>1, <1>2, <1>3, <1>4, <1>5, <1>6, <1>7, <1>8 DEF ReaderStep, Drains

\* What the window's timer reads of a state: not its error.
SameData(m, n) ==
  /\ m.fused = n.fused /\ m.open = n.open /\ m.latest = n.latest
  /\ m.seen = n.seen /\ m.dr = n.dr

\* The drawing changes nothing of the readers but the lock and the error.
LEMMA GuiFrame ==
  ASSUME TypeInv, WindowInv, GuiStep
  PROVE  /\ session \in Sessions /\ ui = "live"
         /\ UNCHANGED <<ui, session, menu, config, reader, ended, sink, handed>>
         /\ \A t \in Sessions :
              /\ SameData(state'[t], state[t])
              /\ t # session => state'[t] = state[t] /\ lock'[t] = lock[t]
<1> USE DEF mainVars, sourceVars
<1>1. session \in Sessions /\ ui = "live"
  BY DEF GuiStep, FirstPaint, SnapshotBegin, SnapshotFused, SnapshotOpen, Paint, DrawTriad,
         DrawHeading, ReadFix, DrawArrow, AlignTitle, Painting, Aligning, WindowInv, InSession
<1>2. UNCHANGED <<ui, session, menu, config, reader, ended, sink, handed>>
  BY DEF GuiStep, FirstPaint, SnapshotBegin, SnapshotFused, SnapshotOpen, Paint, DrawTriad,
         DrawHeading, ReadFix, DrawArrow, AlignTitle
<1>3. \A t \in Sessions : t # session => lock'[t] = lock[t]
  BY DEF GuiStep, FirstPaint, SnapshotBegin, SnapshotFused, SnapshotOpen, Paint, DrawTriad,
         DrawHeading, ReadFix, DrawArrow, AlignTitle, TypeInv
<1>4. \A t \in Sessions : SameData(state'[t], state[t]) /\ (t # session => state'[t] = state[t])
  <2>1. CASE DrawTriad
    <3>1. \A t \in Sessions : state[t] \in Monitors
      BY DEF TypeInv
    <3>2. \A t \in Sessions : state'[t] = IF t = session THEN [state[t] EXCEPT !.error = @ \/ HalfAppended]
                                      ELSE state[t]
      BY <2>1 DEF DrawTriad, TypeInv
    <3> QED
      BY <3>1, <3>2 DEF SameData, Monitors
  <2>2. CASE ~DrawTriad
    <3>1. state' = state
      BY <2>2 DEF GuiStep, FirstPaint, SnapshotBegin, SnapshotFused, SnapshotOpen, Paint,
                  DrawHeading, ReadFix, DrawArrow, AlignTitle
    <3> QED
      BY <3>1 DEF SameData
  <2> QED
    BY <2>1, <2>2
<1> QED
  BY <1>1, <1>2, <1>3, <1>4

LEMMA WindowStep ==
  ASSUME LiveInv, LiveNext
  PROVE  WindowInv'
<1> USE DEF LiveInv
<1>1. CASE MainStep
  <2>1. CASE OpenSession
    BY <1>1, <2>1, LiveAssumption DEF OpenSession, TypeInv, WindowInv, InSession, Sessions
  <2>2. CASE ~OpenSession
    BY <1>1, <2>2 DEF MainStep, AlignAborts, NoBoardFound, Quit, CloseWindow, CloseSource, Join,
                      Exit, IdleGui, WindowInv, InSession
  <2> QED
    BY <2>1, <2>2
<1>2. CASE GuiStep
  BY <1>2, GuiFrame DEF WindowInv, InSession
<1>3. ASSUME NEW s \in Sessions, ReaderStep(s) PROVE WindowInv'
  BY <1>3, ReaderFrame DEF WindowInv, InSession
<1> QED
  BY <1>1, <1>2, <1>3 DEF LiveNext

LEMMA FreshStep ==
  ASSUME LiveInv, LiveNext
  PROVE  FreshInv'
<1> USE DEF LiveInv
<1>1. session \in 0 .. MaxSessions /\ Sessions \subseteq Nat /\ MaxSessions \in Nat
  BY LiveAssumption DEF TypeInv, Sessions
<1>2. CASE OpenSession
  <2>1. session' = session + 1
    BY <1>2 DEF OpenSession
  <2>2. \A s \in Sessions : s > session + 1 =>
          /\ s > session /\ reader'[s] = reader[s] /\ state'[s] = state[s]
          /\ lock'[s] = lock[s] /\ sink'[s] = sink[s] /\ handed'[s] = handed[s]
    BY <1>1, <1>2 DEF OpenSession, TypeInv, Readers, Sinks
  <2> QED
    BY <2>1, <2>2 DEF FreshInv
<1>3. ASSUME Exit PROVE FreshInv'
  BY <1>3 DEF Exit, FreshInv, NoRecordHeld, TypeInv, Sinks
<1>4. CASE CloseWindow \/ CloseSource
  BY <1>4 DEF CloseWindow, CloseSource, FreshInv, sourceVars
<1>5. CASE Join
  <2>1. CASE menu
    <3>1. \A s \in Sessions : s > session =>
            /\ state'[s] = state[s] /\ sink'[s] = sink[s]
      <4>1. /\ sink' = [sink EXCEPT ![session].open = FALSE]
            /\ state' \in {state, [state EXCEPT ![session] = FreshMonitor]}
        BY <1>5, <2>1 DEF Join
      <4> QED
        BY <1>1, <4>1 DEF TypeInv, Sinks
    <3>2. UNCHANGED <<session, reader, lock, handed>>
      BY <1>5, <2>1 DEF Join
    <3> QED
      BY <3>1, <3>2 DEF FreshInv
  <2>2. CASE ~menu
    BY <1>3, <1>5, <2>2 DEF Join
  <2> QED
    BY <2>1, <2>2
<1>6. CASE MainStep
  BY <1>2, <1>3, <1>4, <1>5, <1>6 DEF MainStep, AlignAborts, NoBoardFound, Quit
<1>7. CASE GuiStep
  <2>1. \A t \in Sessions : t > session => t # session
    BY <1>1
  <2> QED
    BY <1>7, <2>1, GuiFrame DEF FreshInv
<1>8. ASSUME NEW s \in Sessions, ReaderStep(s) PROVE FreshInv'
  <2>1. reader[s].pc # "none"
    BY <1>8 DEF ReaderStep, Drains, Receive, Unplug, Exhaust, Parse, Apply, AppendTime,
                AppendHeading, AppendRest
  <2>2. ~(s > session)
    BY <2>1 DEF FreshInv
  <2> QED
    BY <1>8, <2>2, ReaderFrame DEF FreshInv
<1> QED
  BY <1>6, <1>7, <1>8 DEF LiveNext

\* What a reader's step does with its place and the lock.
LEMMA ReaderLocks ==
  ASSUME TypeInv, NEW s \in Sessions, ReaderStep(s)
  PROVE  \/ /\ ~Mid(s) /\ ~Mid(s)' /\ lock'[s] = lock[s]
         \/ /\ AppendTime(s) /\ lock[s] = "free" /\ lock'[s] = "reader"
            /\ ~Mid(s) /\ reader'[s] = [reader[s] EXCEPT !.pc = "heading"]
            /\ reader'[s].record = reader[s].record /\ reader[s].record.type \in {"F", "I"}
         \/ /\ AppendHeading(s) /\ Mid(s) /\ lock'[s] = lock[s]
            /\ reader'[s].pc = "rest" /\ reader'[s].record = reader[s].record
         \/ AppendRest(s) /\ Mid(s) /\ ~Mid(s)' /\ lock'[s] = "free"
<1> USE DEF mainVars, sourceVars
<1>1. reader[s] \in [pc : ReaderPcs, record : Records] /\ lock[s] \in {"free", "reader", "gui"}
  BY DEF TypeInv, Readers
<1>2. \A r : reader' = [reader EXCEPT ![s] = r] => reader'[s] = r
  BY DEF TypeInv, Readers
<1>3. \A pc : [reader[s] EXCEPT !.pc = pc].pc = pc
              /\ [reader[s] EXCEPT !.pc = pc].record = reader[s].record
  BY <1>1
<1>4. \A pc : [NoRecordHeld EXCEPT !.pc = pc].pc = pc
  BY DEF NoRecordHeld
<1>5. CASE Receive(s)
  <2>1. PICK line : Tee(s, line)
    BY <1>5 DEF Receive
  <2>2. reader'[s].pc \in {"parse", "failed"}
    <3>1. \/ reader' = [reader EXCEPT ![s] = [NoRecordHeld EXCEPT !.pc = "failed"]]
          \/ reader' = [reader EXCEPT ![s] = [pc |-> "parse", record |-> Parsed[line]]]
      BY <2>1 DEF Tee, Raise
    <3>2. \/ reader'[s] = [NoRecordHeld EXCEPT !.pc = "failed"]
          \/ reader'[s] = [pc |-> "parse", record |-> Parsed[line]]
      BY <1>2, <3>1
    <3> QED
      BY <3>2 DEF NoRecordHeld
  <2> QED
    BY <1>5, <2>2 DEF Receive, Mid
<1>6. CASE Unplug(s)
  <2>1. reader'[s].pc = "failed"
    BY <1>2, <1>4, <1>6 DEF Unplug, Raise
  <2> QED
    BY <1>6, <2>1 DEF Unplug, Mid
<1>7. CASE Exhaust(s)
  <2>1. reader'[s].pc = "done"
    BY <1>2, <1>3, <1>7 DEF Exhaust
  <2> QED
    BY <1>7, <2>1 DEF Exhaust, Mid
<1>8. CASE Parse(s)
  <2>1. reader'[s].pc \in {"pull", "lock"}
    BY <1>2, <1>3, <1>8 DEF Parse
  <2> QED
    BY <1>8, <2>1 DEF Parse, Mid
<1>9. CASE Apply(s)
  <2>1. reader'[s].pc = "pull"
    BY <1>2, <1>4, <1>9 DEF Apply
  <2> QED
    BY <1>9, <2>1 DEF Apply, Mid
<1>10. CASE AppendTime(s)
  <2>1. reader'[s] = [reader[s] EXCEPT !.pc = "heading"] /\ reader'[s].record = reader[s].record
    BY <1>2, <1>3, <1>10 DEF AppendTime
  <2>2. lock'[s] = "reader"
    BY <1>10 DEF AppendTime, TypeInv
  <2> QED
    BY <1>10, <2>1, <2>2 DEF AppendTime, Mid
<1>11. CASE AppendHeading(s)
  <2>1. reader'[s].pc = "rest" /\ reader'[s].record = reader[s].record
    BY <1>2, <1>3, <1>11 DEF AppendHeading
  <2> QED
    BY <1>11, <2>1 DEF AppendHeading, Mid
<1>12. CASE AppendRest(s)
  <2>1. reader'[s].pc = "pull"
    BY <1>2, <1>4, <1>12 DEF AppendRest
  <2>2. lock'[s] = "free"
    BY <1>12 DEF AppendRest, TypeInv
  <2> QED
    BY <1>12, <2>1, <2>2 DEF AppendRest, Mid
<1> QED
  BY <1>5, <1>6, <1>7, <1>8, <1>9, <1>10, <1>11, <1>12 DEF ReaderStep, Drains

LEMMA LockStep ==
  ASSUME LiveInv, LiveNext
  PROVE  LockInv'
<1> USE DEF LiveInv
<1>1. session \in 0 .. MaxSessions /\ Sessions \subseteq Nat
  BY DEF TypeInv, Sessions
<1>2. CASE OpenSession
  <2>1. gui.pc = "idle" /\ session' = session + 1 /\ lock' = lock /\ gui' = gui
    BY <1>2 DEF OpenSession, WindowInv
  <2>2. reader' = [reader EXCEPT ![session + 1].pc = "pull"]
    BY <1>2 DEF OpenSession
  <2>3. ASSUME NEW s \in Sessions, s # session + 1 PROVE reader'[s] = reader[s]
    BY <2>2, <2>3 DEF TypeInv, Readers
  <2>4. ASSUME NEW s \in Sessions, s = session + 1 PROVE reader'[s].pc = "pull" /\ lock[s] = "free"
    BY <1>1, <2>2, <2>4 DEF TypeInv, Readers, FreshInv
  <2>5. ASSUME NEW s \in Sessions
        PROVE  /\ lock'[s] = "reader" <=> Mid(s)'
               /\ lock'[s] # "gui" /\ (Mid(s)' => reader'[s].record.type \in {"F", "I"})
    BY <2>1, <2>3, <2>4, <2>5 DEF LockInv, Mid
  <2> QED
    BY <2>1, <2>5 DEF LockInv
<1>3. ASSUME Exit PROVE LockInv'
  BY <1>3 DEF Exit, LockInv, Mid, NoRecordHeld, IdleGui
<1>4. CASE CloseWindow \/ CloseSource
  BY <1>4 DEF CloseWindow, CloseSource, LockInv, Mid, sourceVars
<1>5. CASE Join
  <2>1. CASE menu
    BY <1>5, <2>1 DEF Join, LockInv, Mid
  <2>2. CASE ~menu
    BY <1>3, <1>5, <2>2 DEF Join
  <2> QED
    BY <2>1, <2>2
<1>6. CASE MainStep
  BY <1>2, <1>3, <1>4, <1>5, <1>6 DEF MainStep, AlignAborts, NoBoardFound, Quit
<1>7. CASE GuiStep
  <2>1. /\ session \in Sessions /\ session' = session /\ reader' = reader
        /\ \A s \in Sessions : s # session => lock'[s] = lock[s]
    BY <1>7, GuiFrame
  <2>2. \/ /\ lock' = lock /\ gui.pc \notin {"fused", "open"} /\ gui'.pc \notin {"fused", "open"}
        \/ lock' = lock /\ gui.pc = "fused" /\ gui'.pc = "open"
        \/ lock[session] = "free" /\ lock'[session] = "gui" /\ gui'.pc = "fused"
        \/ lock[session] = "gui" /\ lock'[session] = "free" /\ gui'.pc \notin {"fused", "open"}
    <3>1. gui \in Guis
      BY DEF TypeInv
    <3>2. \A pc : [gui EXCEPT !.pc = pc].pc = pc
      BY <3>1 DEF Guis
    <3>3. CASE SnapshotBegin
      BY <2>1, <3>1, <3>3 DEF SnapshotBegin, TypeInv, Guis
    <3>4. CASE SnapshotFused
      BY <3>1, <3>4 DEF SnapshotFused, Guis, Painting
    <3>5. CASE SnapshotOpen
      <4>1. lock[session] = "gui"
        BY <2>1, <3>5 DEF SnapshotOpen, Painting, LockInv
      <4>2. lock'[session] = "free"
        BY <2>1, <3>5 DEF SnapshotOpen, TypeInv
      <4>3. gui'.pc \in {"paint", "panel"}
        BY <3>5 DEF SnapshotOpen
      <4> QED
        BY <4>1, <4>2, <4>3
    <3>6. CASE FirstPaint
      BY <3>6 DEF FirstPaint, Painting
    <3>7. CASE Paint \/ AlignTitle
      BY <3>7 DEF Paint, AlignTitle, Painting, Aligning, IdleGui
    <3>8. CASE DrawTriad
      BY <3>2, <3>8 DEF DrawTriad, Aligning
    <3>9. CASE DrawHeading
      BY <3>2, <3>9 DEF DrawHeading, Aligning
    <3>10. CASE ReadFix
      BY <3>2, <3>10 DEF ReadFix, Aligning
    <3>11. CASE DrawArrow
      BY <3>2, <3>11 DEF DrawArrow, Aligning
    <3> QED
      BY <1>7, <3>3, <3>4, <3>5, <3>6, <3>7, <3>8, <3>9, <3>10, <3>11 DEF GuiStep
  <2>3. \A s \in Sessions : Mid(s)' <=> Mid(s)
    BY <2>1 DEF Mid
  <2>4. ASSUME NEW s \in Sessions
        PROVE  /\ lock'[s] = "reader" <=> Mid(s)
               /\ lock'[s] = "gui" <=> s = session /\ gui'.pc \in {"fused", "open"}
               /\ Mid(s) => reader[s].record.type \in {"F", "I"}
    <3>1. /\ lock[s] = "reader" <=> Mid(s)
          /\ lock[s] = "gui" <=> s = session /\ gui.pc \in {"fused", "open"}
          /\ Mid(s) => reader[s].record.type \in {"F", "I"}
      BY DEF LockInv
    <3> QED
      BY <2>1, <2>2, <3>1
  <2> QED
    BY <2>1, <2>3, <2>4 DEF LockInv
<1>8. ASSUME NEW s \in Sessions, ReaderStep(s) PROVE LockInv'
  <2>1. /\ session' = session /\ gui' = gui
        /\ \A t \in Sessions \ {s} : lock'[t] = lock[t] /\ reader'[t] = reader[t]
    BY <1>8, ReaderFrame
  <2>2. ASSUME NEW t \in Sessions \ {s}
        PROVE  /\ lock'[t] = "reader" <=> Mid(t)'
               /\ lock'[t] = "gui" <=> t = session /\ gui.pc \in {"fused", "open"}
               /\ Mid(t)' => reader'[t].record.type \in {"F", "I"}
    BY <2>1 DEF LockInv, Mid
  <2>3. /\ lock'[s] = "reader" <=> Mid(s)'
        /\ lock'[s] = "gui" <=> s = session /\ gui.pc \in {"fused", "open"}
        /\ Mid(s)' => reader'[s].record.type \in {"F", "I"}
    <3>1. /\ lock[s] = "reader" <=> Mid(s)
          /\ lock[s] = "gui" <=> s = session /\ gui.pc \in {"fused", "open"}
          /\ Mid(s) => reader[s].record.type \in {"F", "I"}
      BY DEF LockInv
    <3>2. reader'[s].pc \in {"heading", "rest"} <=> Mid(s)'
      BY DEF Mid
    <3>3. AppendTime(s) /\ reader'[s] = [reader[s] EXCEPT !.pc = "heading"] => Mid(s)'
      BY DEF TypeInv, Readers, Mid
    <3> QED
      BY <1>8, <3>1, <3>2, <3>3, ReaderLocks
  <2> QED
    BY <2>1, <2>2, <2>3 DEF LockInv
<1> QED
  BY <1>6, <1>7, <1>8 DEF LiveNext

\* The sample of the record being appended is one the stream can carry.
PendingFacts(s) ==
  /\ Pending(s).t \in 1 .. MaxLines /\ Pending(s).t = Stamp(reader[s].record)
  /\ Pending(s).heading \in Quarters /\ Pending(s).roll \in Rolls /\ Pending(s).pitch \in {0}

LEMMA PendingIsSample ==
  TypeInv /\ LockInv => \A s \in Sessions : Mid(s) => PendingFacts(s)
<1> SUFFICES ASSUME TypeInv, LockInv, NEW s \in Sessions, Mid(s) PROVE PendingFacts(s)
  OBVIOUS
<1> DEFINE record == reader[s].record
<1>1. record \in Records /\ state[s] \in Monitors
  BY DEF TypeInv, Readers
<1>2. FusionFacts(record) \/ ImuFacts(record)
  BY <1>1, RecordsAreRead DEF LockInv, RecordFacts, PlainRecord, GnssFacts
<1>3. CASE FusionFacts(record)
  BY <1>3 DEF FusionFacts, PendingFacts, Pending, SampleOf, Quarters, Rolls
<1>4. CASE ImuFacts(record)
  <2>1. state[s].dr.heading \in Quarters
    BY <1>1 DEF Monitors, Reckoners
  <2> QED
    BY <1>4, <2>1 DEF ImuFacts, PendingFacts, Pending, SampleOf, Rolls
<1> QED
  BY <1>2, <1>3, <1>4

\* The columns of n and m are the same, but for some of one series.
SameBut(n, m, series, names) ==
  \A track \in Tracks, name \in Columns :
    track # series \/ name \notin names => n[track][name] = m[track][name]

\* What a reader's step does with the data of its session.
LEMMA ReaderData ==
  ASSUME LiveInv, NEW s \in Sessions, ReaderStep(s), NEW series,
         series = SeriesOf(reader[s].record)
  PROVE  /\ ~AppendTime(s) /\ ~AppendHeading(s) /\ ~AppendRest(s) =>
              /\ state'[s].fused = state[s].fused /\ state'[s].open = state[s].open
              /\ state'[s].latest = state[s].latest
              /\ ~Parse(s) => state'[s].seen = state[s].seen
         /\ AppendTime(s) =>
              /\ IsPush(1 .. MaxLines, state'[s][series].t, state[s][series].t,
                        Stamp(reader[s].record))
              /\ SameBut(state'[s], state[s], series, {"t"})
              /\ state'[s].latest = state[s].latest /\ state'[s].seen = state[s].seen
         /\ AppendHeading(s) =>
              /\ state'[s][series].heading = Push(state[s][series].heading, Pending(s).heading)
              /\ SameBut(state'[s], state[s], series, {"heading"})
              /\ state'[s].latest = state[s].latest /\ state'[s].seen = state[s].seen
              /\ state'[s].dr = state[s].dr
         /\ AppendRest(s) =>
              /\ state'[s][series].roll = Push(state[s][series].roll, Pending(s).roll)
              /\ state'[s][series].pitch = Push(state[s][series].pitch, Pending(s).pitch)
              /\ SameBut(state'[s], state[s], series, {"roll", "pitch"})
              /\ state'[s].latest = Pending(s).t /\ state'[s].seen = state[s].seen
<1> USE DEF LiveInv
<1> DEFINE record == reader[s].record
<1>1. state[s] \in Monitors /\ series \in Tracks /\ record \in Records
  BY DEF TypeInv, Readers, SeriesOf, Tracks
<1>2. \A m : state' = [state EXCEPT ![s] = m] => state'[s] = m
  BY DEF TypeInv
<1>3. ASSUME ~AppendTime(s), ~AppendHeading(s), ~AppendRest(s)
      PROVE  /\ state'[s].fused = state[s].fused /\ state'[s].open = state[s].open
             /\ state'[s].latest = state[s].latest
             /\ ~Parse(s) => state'[s].seen = state[s].seen
  <2>1. CASE Apply(s)
    <3>1. state'[s] = Update(state[s], record)
      BY <1>2, <2>1 DEF Apply
    <3> QED
      BY <1>1, <2>1, <3>1, PlainUpdate DEF Apply
  <2>2. CASE Parse(s)
    <3>1. \/ state'[s] = [state[s] EXCEPT !.seen = @ + 1]
          \/ state'[s] = [state[s] EXCEPT !.seen = @ + 1, !.parsed = @ + 1]
      BY <2>2 DEF Parse, TypeInv
    <3> QED
      BY <1>1, <2>2, <3>1 DEF Monitors
  <2>3. CASE Receive(s) \/ Unplug(s) \/ Exhaust(s)
    <3>1. state' = state \/ state' = [state EXCEPT ![s].error = TRUE]
      BY <2>3 DEF Receive, Unplug, Exhaust, Tee, Raise
    <3>2. state'[s] = state[s] \/ state'[s] = [state[s] EXCEPT !.error = TRUE]
      BY <3>1 DEF TypeInv
    <3> QED
      BY <1>1, <3>2 DEF Monitors
  <2> QED
    BY <1>3, <2>1, <2>2, <2>3 DEF ReaderStep, Drains
<1>4. ASSUME AppendTime(s)
      PROVE  /\ IsPush(1 .. MaxLines, state'[s][series].t, state[s][series].t, Stamp(record))
             /\ SameBut(state'[s], state[s], series, {"t"})
             /\ state'[s].latest = state[s].latest /\ state'[s].seen = state[s].seen
  <2> DEFINE dr == IF record.type = "I" THEN Reckon(state[s], record) ELSE state[s].dr
             stepped == [state[s] EXCEPT !.dr = dr]
             pushed == PushColumn(stepped, series, "t", Stamp(record))
  <2>1. Stamp(record) \in 1 .. MaxLines
    BY <1>1, <1>4, RecordsAreRead
       DEF AppendTime, RecordFacts, FusionFacts, ImuFacts, PlainRecord, GnssFacts
  <2>2. state'[s] = pushed
    BY <1>4 DEF AppendTime, TypeInv
  <2> HIDE DEF dr
  <2>3. /\ stepped.fused = state[s].fused /\ stepped.open = state[s].open
        /\ stepped.latest = state[s].latest /\ stepped.seen = state[s].seen
    BY <1>1 DEF Monitors
  <2>4. pushed = [stepped EXCEPT ![series]["t"] = Push(@, Stamp(record))]
    BY DEF PushColumn
  <2>5. /\ pushed.latest = stepped.latest /\ pushed.seen = stepped.seen
        /\ pushed[series].t = Push(stepped[series].t, Stamp(record))
        /\ SameBut(pushed, stepped, series, {"t"})
    <3>1. /\ stepped[series] \in Serieses /\ {"fused", "open", "latest", "seen"} \subseteq DOMAIN stepped
          /\ stepped.fused \in Serieses /\ stepped.open \in Serieses
      BY <1>1, <2>3 DEF Monitors, Tracks
    <3> DEFINE longer == [stepped[series] EXCEPT !["t"] = Push(@, Stamp(record))]
    <3>2. pushed = [stepped EXCEPT ![series] = longer]
      BY <2>4
    <3>3. /\ longer.t = Push(stepped[series].t, Stamp(record))
          /\ \A name \in Columns \ {"t"} : longer[name] = stepped[series][name]
      BY <3>1 DEF Serieses, Columns
    <3> HIDE DEF stepped, pushed, longer
    <3>4. /\ pushed.latest = stepped.latest /\ pushed.seen = stepped.seen
          /\ pushed[series] = longer
          /\ \A track \in Tracks : track # series => pushed[track] = stepped[track]
      BY <1>1, <3>1, <3>2 DEF Tracks
    <3> QED
      BY <1>1, <3>3, <3>4 DEF SameBut
  <2>6. IsPush(1 .. MaxLines, pushed[series].t, state[s][series].t, Stamp(record))
    <3>1. state[s][series].t \in Seq(1 .. MaxLines) /\ stepped[series].t = state[s][series].t
      BY <1>1, <2>3 DEF Monitors, Serieses, Tracks
    <3> HIDE DEF stepped, pushed
    <3> QED
      BY <2>1, <2>5, <3>1, PushFacts
  <2>7. SameBut(stepped, state[s], series, {"t"})
    BY <2>3 DEF SameBut, Tracks
  <2> HIDE DEF stepped, pushed
  <2> QED
    BY <2>2, <2>3, <2>5, <2>6, <2>7 DEF SameBut
<1>5. Mid(s) => PendingFacts(s)
  BY PendingIsSample
<1>6. ASSUME AppendHeading(s)
      PROVE  /\ state'[s][series].heading = Push(state[s][series].heading, Pending(s).heading)
             /\ SameBut(state'[s], state[s], series, {"heading"})
             /\ state'[s].latest = state[s].latest /\ state'[s].seen = state[s].seen
             /\ state'[s].dr = state[s].dr
  <2> DEFINE pushed == PushColumn(state[s], series, "heading", Pending(s).heading)
  <2>1. state'[s] = pushed
    BY <1>6 DEF AppendHeading, TypeInv
  <2>2. Pending(s).heading \in Values("heading")
    BY <1>5, <1>6 DEF AppendHeading, Mid, PendingFacts, Values
  <2>3. PushedOnly(pushed, state[s], series, "heading", Pending(s).heading)
    BY <1>1, <2>2, PushColumnFacts
  <2>4. pushed[series].heading = Push(state[s][series].heading, Pending(s).heading)
    BY <1>1 DEF PushColumn, Monitors, Serieses, Tracks
  <2> HIDE DEF pushed
  <2> QED
    BY <2>1, <2>3, <2>4 DEF PushedOnly, SameBut, Columns
<1>7. ASSUME AppendRest(s)
      PROVE  /\ state'[s][series].roll = Push(state[s][series].roll, Pending(s).roll)
             /\ state'[s][series].pitch = Push(state[s][series].pitch, Pending(s).pitch)
             /\ SameBut(state'[s], state[s], series, {"roll", "pitch"})
             /\ state'[s].latest = Pending(s).t /\ state'[s].seen = state[s].seen
  <2> DEFINE rolled == PushColumn(state[s], series, "roll", Pending(s).roll)
             whole == PushColumn(rolled, series, "pitch", Pending(s).pitch)
  <2>1. state'[s] = [whole EXCEPT !.latest = Pending(s).t]
    BY <1>7 DEF AppendRest, TypeInv
  <2>2. Pending(s).roll \in Values("roll") /\ Pending(s).pitch \in Values("pitch")
    BY <1>5, <1>7 DEF AppendRest, Mid, PendingFacts, Values
  <2>3. PushedOnly(rolled, state[s], series, "roll", Pending(s).roll)
    BY <1>1, <2>2, PushColumnFacts
  <2>4. rolled[series].roll = Push(state[s][series].roll, Pending(s).roll)
    BY <1>1 DEF PushColumn, Monitors, Serieses, Tracks
  <2>5. rolled \in Monitors
    BY <2>3 DEF PushedOnly
  <2> HIDE DEF rolled
  <2>6. PushedOnly(whole, rolled, series, "pitch", Pending(s).pitch)
    BY <1>1, <2>2, <2>5, PushColumnFacts
  <2>7. whole[series].pitch = Push(rolled[series].pitch, Pending(s).pitch)
    BY <1>1, <2>5 DEF PushColumn, Monitors, Serieses, Tracks
  <2>8. whole \in Monitors
    BY <2>6 DEF PushedOnly
  <2> HIDE DEF whole
  <2>9. /\ whole[series].roll = Push(state[s][series].roll, Pending(s).roll)
        /\ whole[series].pitch = Push(state[s][series].pitch, Pending(s).pitch)
        /\ SameBut(whole, state[s], series, {"roll", "pitch"}) /\ whole.seen = state[s].seen
    BY <1>1, <2>3, <2>4, <2>6, <2>7 DEF PushedOnly, SameBut, Columns
  <2>10. /\ state'[s].fused = whole.fused /\ state'[s].open = whole.open
         /\ state'[s].seen = whole.seen /\ state'[s].latest = Pending(s).t
    BY <2>1, <2>8 DEF Monitors
  <2>11. \A track \in Tracks : state'[s][track] = whole[track]
    BY <2>10 DEF Tracks
  <2> QED
    BY <1>1, <2>9, <2>10, <2>11 DEF SameBut
<1> QED
  BY <1>3, <1>4, <1>6, <1>7

LEMMA EmptyColumns ==
  \A track \in Tracks, name \in Columns : Len(FreshMonitor[track][name]) = 0
BY FreshTypes DEF Columns

LEMMA ColumnStep ==
  ASSUME LiveInv, LiveNext
  PROVE  ColumnInv'
<1> USE DEF LiveInv
<1>1. ASSUME NEW s \in Sessions, state'[s] = FreshMonitor, ~Mid(s)', NEW track \in Tracks
      PROVE  OneLength(s, track)'
  <2>1. \A name \in Columns : Len(state'[s][track][name]) = 0
    BY <1>1, EmptyColumns
  <2>2. Len(state'[s][track].t) = 0
    BY <2>1 DEF Columns
  <2> QED
    BY <1>1, <2>1, <2>2, MaxLenAssumption DEF OneLength, Missing
<1>2. ASSUME NEW s \in Sessions, NEW track \in Tracks, state'[s][track] = state[s][track],
             \/ ~Mid(s) /\ ~Mid(s)'
             \/ reader'[s] = reader[s]
      PROVE  OneLength(s, track)'
  BY <1>2 DEF ColumnInv, OneLength, Missing, Mid
<1>3. ASSUME Exit PROVE ColumnInv'
  <2>1. \A s \in Sessions : state'[s] = FreshMonitor /\ ~Mid(s)'
    BY <1>3 DEF Exit, Mid, NoRecordHeld
  <2> QED
    BY <1>1, <2>1 DEF ColumnInv
<1>4. CASE OpenSession
  <2>1. reader' = [reader EXCEPT ![session + 1].pc = "pull"] /\ state' = state
    BY <1>4 DEF OpenSession
  <2>2. \A s \in Sessions : s # session + 1 => reader'[s] = reader[s]
    BY <2>1 DEF TypeInv, Readers
  <2>3. \A s \in Sessions : s = session + 1 => ~Mid(s) /\ ~Mid(s)'
    <3>1. \A s \in Sessions : s = session + 1 => s > session /\ reader'[s].pc = "pull"
      BY <2>1 DEF TypeInv, Readers
    <3> QED
      BY <3>1 DEF FreshInv, Mid
  <2> QED
    BY <1>2, <2>1, <2>2, <2>3 DEF ColumnInv
<1>5. CASE CloseWindow \/ CloseSource
  BY <1>2, <1>5 DEF CloseWindow, CloseSource, ColumnInv
<1>6. CASE Join
  <2>1. CASE menu
    <3>1. /\ reader' = reader
          /\ state' = IF reader[session].pc \in {"done", "failed"}
                        THEN [state EXCEPT ![session] = FreshMonitor] ELSE state
      BY <1>6, <2>1 DEF Join
    <3>2. \A s \in Sessions : state'[s] = state[s] \/ (state'[s] = FreshMonitor /\ ~Mid(s)')
      BY <3>1 DEF TypeInv, Mid
    <3> QED
      BY <1>1, <1>2, <3>1, <3>2 DEF ColumnInv
  <2>2. CASE ~menu
    BY <1>3, <1>6, <2>2 DEF Join
  <2> QED
    BY <2>1, <2>2
<1>7. CASE MainStep
  BY <1>3, <1>4, <1>5, <1>6, <1>7 DEF MainStep, AlignAborts, NoBoardFound, Quit
<1>8. CASE GuiStep
  <2>1. \A s \in Sessions, track \in Tracks :
          state'[s][track] = state[s][track] /\ reader'[s] = reader[s]
    BY <1>8, GuiFrame DEF SameData, Tracks
  <2> QED
    BY <1>2, <2>1 DEF ColumnInv
<1>9. ASSUME NEW s \in Sessions, ReaderStep(s) PROVE ColumnInv'
  <2>0. PICK series : series = SeriesOf(reader[s].record)
    OBVIOUS
  <2>1. \A t \in Sessions \ {s} : state'[t] = state[t] /\ reader'[t] = reader[t]
    BY <1>9, ReaderFrame
  <2>2. ASSUME NEW t \in Sessions \ {s}, NEW track \in Tracks PROVE OneLength(t, track)'
    BY <1>2, <2>1
  <2>3. series \in Tracks /\ state[s] \in Monitors
    BY <2>0 DEF SeriesOf, Tracks, TypeInv
  <2>4. \A track \in Tracks, name \in Columns : Len(state[s][track][name]) \in Nat
    BY <2>3 DEF Monitors, Serieses, Tracks, Columns
  <2>5. \A track \in Tracks : OneLength(s, track)
    BY DEF ColumnInv
  <2>6. CASE ~AppendTime(s) /\ ~AppendHeading(s) /\ ~AppendRest(s)
    <3>1. ~Mid(s) /\ ~Mid(s)'
      BY <1>9, <2>6, ReaderLocks
    <3>2. \A track \in Tracks : state'[s][track] = state[s][track]
      BY <1>9, <2>6, ReaderData DEF Tracks
    <3> QED
      BY <1>2, <2>2, <3>1, <3>2 DEF ColumnInv
  <2>7. CASE AppendTime(s)
    <3>1. /\ ~Mid(s) /\ reader'[s] = [reader[s] EXCEPT !.pc = "heading"]
          /\ reader'[s].record = reader[s].record
      <4>1. ~AppendHeading(s) /\ ~AppendRest(s) /\ reader[s].pc = "lock"
        BY <2>7 DEF AppendTime, AppendHeading, AppendRest
      <4>2. reader' = [reader EXCEPT ![s].pc = "heading"]
        BY <2>7 DEF AppendTime
      <4> QED
        BY <4>1, <4>2 DEF Mid, TypeInv, Readers
    <3>2. reader'[s].pc = "heading" /\ Mid(s)'
      BY <3>1 DEF Mid, TypeInv, Readers
    <3>3. /\ IsPush(1 .. MaxLines, state'[s][series].t, state[s][series].t,
                    Stamp(reader[s].record))
          /\ SameBut(state'[s], state[s], series, {"t"})
      BY <1>9, <2>7, <2>0, ReaderData
    <3>4. \A track \in Tracks, name \in Columns :
            Len(state[s][track][name]) = Len(state[s][track].t) /\ Len(state[s][track].t) <= MaxLen
      BY <2>5, <3>1 DEF OneLength, Missing
    <3>5. /\ state'[s][series].t # <<>>
          /\ Len(state'[s][series].t) = IF Len(state[s][series].t) = MaxLen THEN MaxLen
                                        ELSE Len(state[s][series].t) + 1
      BY <3>3 DEF IsPush
    <3>6. OneLength(s, series)'
      <4>1. \A name \in Columns \ {"t"} : state'[s][series][name] = state[s][series][name]
        BY <2>3, <3>3 DEF SameBut
      <4>2. \A name \in Columns : Missing(s, series, name)' <=> name # "t"
        BY <2>0, <3>1, <3>2 DEF Missing, Columns
      <4>3. Len(state'[s][series].t) <= MaxLen
        BY <2>3, <2>4, <3>4, <3>5, MaxLenAssumption DEF Columns
      <4>4. \A name \in Columns \ {"t"} :
              Len(state'[s][series].t) =
                IF Len(state'[s][series][name]) = MaxLen THEN MaxLen
                ELSE Len(state'[s][series][name]) + 1
        BY <2>3, <3>4, <3>5, <4>1
      <4> QED
        BY <3>5, <4>2, <4>3, <4>4 DEF OneLength
    <3>7. ASSUME NEW track \in Tracks, track # series PROVE OneLength(s, track)'
      <4>1. \A name \in Columns : state'[s][track][name] = state[s][track][name]
        BY <3>3, <3>7 DEF SameBut
      <4>2. state'[s][track].t = state[s][track].t
        BY <4>1 DEF Columns
      <4>3. \A name \in Columns : ~Missing(s, track, name)'
        BY <2>0, <3>1, <3>7 DEF Missing
      <4>4. SeriesOf(reader[s].record)' # track
        BY <2>0, <3>1, <3>7
      <4>5. \A name \in Columns : Len(state'[s][track][name]) = Len(state'[s][track].t)
        BY <3>4, <4>1, <4>2
      <4>6. Len(state'[s][track].t) <= MaxLen
        BY <3>4, <4>2 DEF Columns
      <4> QED
        BY <4>3, <4>4, <4>5, <4>6 DEF OneLength
    <3> QED
      BY <2>2, <3>6, <3>7 DEF ColumnInv
  <2>8. CASE AppendHeading(s)
    <3>1. /\ reader[s].pc = "heading" /\ reader'[s].pc = "rest"
          /\ reader'[s].record = reader[s].record /\ Mid(s) /\ Mid(s)'
      <4>1. reader' = [reader EXCEPT ![s].pc = "rest"] /\ reader[s].pc = "heading"
        BY <2>8 DEF AppendHeading
      <4> QED
        BY <4>1 DEF Mid, TypeInv, Readers
    <3>2. /\ state'[s][series].heading = Push(state[s][series].heading, Pending(s).heading)
          /\ SameBut(state'[s], state[s], series, {"heading"})
      BY <1>9, <2>8, <2>0, ReaderData
    <3>3. IsPush(Quarters, state'[s][series].heading, state[s][series].heading, Pending(s).heading)
      <4>1. Pending(s).heading \in Quarters
        BY <3>1, PendingIsSample DEF PendingFacts
      <4>2. state[s][series].heading \in Seq(Quarters)
        BY <2>3 DEF Monitors, Serieses, Tracks
      <4> QED
        BY <3>2, <4>1, <4>2, PushFacts
    <3>4. ASSUME NEW track \in Tracks PROVE OneLength(s, track)'
      <4>1. state'[s][track].t = state[s][track].t
        BY <3>2, <3>4 DEF SameBut, Columns
      <4>2. ASSUME NEW name \in Columns, ~(track = series /\ name = "heading")
            PROVE  /\ state'[s][track][name] = state[s][track][name]
                   /\ Missing(s, track, name)' <=> Missing(s, track, name)
        BY <2>0, <3>1, <3>2, <4>2 DEF SameBut, Missing
      <4>3. track = series => ~Missing(s, track, "heading")' /\ Missing(s, track, "heading")
        BY <2>0, <3>1 DEF Missing
      <4>4. track = series => Len(state'[s][track].heading) = Len(state[s][track].t)
        BY <2>5, <3>3, <3>4, <4>3 DEF OneLength, Columns, IsPush
      <4> QED
        BY <2>5, <3>1, <4>1, <4>2, <4>3, <4>4 DEF OneLength
    <3> QED
      BY <2>2, <3>4 DEF ColumnInv
  <2>9. CASE AppendRest(s)
    <3>1. reader[s].pc = "rest" /\ Mid(s) /\ ~Mid(s)'
      <4>1. reader' = [reader EXCEPT ![s] = [NoRecordHeld EXCEPT !.pc = "pull"]]
        BY <2>9 DEF AppendRest
      <4> QED
        BY <2>9, <4>1 DEF AppendRest, Mid, TypeInv, Readers, NoRecordHeld
    <3>2. /\ state'[s][series].roll = Push(state[s][series].roll, Pending(s).roll)
          /\ state'[s][series].pitch = Push(state[s][series].pitch, Pending(s).pitch)
          /\ SameBut(state'[s], state[s], series, {"roll", "pitch"})
      BY <1>9, <2>9, <2>0, ReaderData
    <3>3. /\ IsPush(Rolls, state'[s][series].roll, state[s][series].roll, Pending(s).roll)
          /\ IsPush({0}, state'[s][series].pitch, state[s][series].pitch, Pending(s).pitch)
      <4>1. Pending(s).roll \in Rolls /\ Pending(s).pitch \in {0}
        BY <3>1, PendingIsSample DEF PendingFacts
      <4>2. state[s][series].roll \in Seq(Rolls) /\ state[s][series].pitch \in Seq({0})
        BY <2>3 DEF Monitors, Serieses, Tracks
      <4> QED
        BY <3>2, <4>1, <4>2, PushFacts
    <3>4. ASSUME NEW track \in Tracks PROVE OneLength(s, track)'
      <4>1. state'[s][track].t = state[s][track].t
        BY <3>2, <3>4 DEF SameBut, Columns
      <4>2. ASSUME NEW name \in Columns, ~(track = series /\ name \in {"roll", "pitch"})
            PROVE  /\ state'[s][track][name] = state[s][track][name]
                   /\ ~Missing(s, track, name)
        BY <2>0, <3>1, <3>2, <4>2 DEF SameBut, Missing
      <4>3. track = series => Missing(s, track, "roll") /\ Missing(s, track, "pitch")
        BY <2>0, <3>1 DEF Missing
      <4>4. track = series => /\ Len(state'[s][track].roll) = Len(state[s][track].t)
                              /\ Len(state'[s][track].pitch) = Len(state[s][track].t)
        BY <2>5, <3>3, <3>4, <4>3 DEF OneLength, Columns, IsPush
      <4>5. \A name \in Columns : ~Missing(s, track, name)'
        BY <3>1 DEF Missing
      <4> QED
        BY <2>5, <3>1, <4>1, <4>2, <4>4, <4>5 DEF OneLength
    <3> QED
      BY <2>2, <3>4 DEF ColumnInv
  <2> QED
    BY <2>6, <2>7, <2>8, <2>9
<1> QED
  BY <1>7, <1>8, <1>9 DEF LiveNext

LEMMA LiveInvInit == LiveInit => LiveInv
<1> SUFFICES ASSUME LiveInit PROVE LiveInv
  OBVIOUS
<1>1. TypeInv
  BY TypeInit
<1>2. WindowInv
  BY DEF LiveInit, IdleGui, WindowInv, InSession
<1>3. FreshInv
  BY DEF LiveInit, NoRecordHeld, FreshInv
<1>4. LockInv
  BY DEF LiveInit, NoRecordHeld, IdleGui, LockInv, Mid
<1>5. ColumnInv
  <2>1. \A s \in Sessions : state[s] = FreshMonitor /\ ~Mid(s)
    BY DEF LiveInit, NoRecordHeld, Mid
  <2>2. \A track \in Tracks : Len(FreshMonitor[track].t) = 0
    BY EmptyColumns DEF Columns
  <2> QED
    BY <2>1, <2>2, EmptyColumns, MaxLenAssumption DEF ColumnInv, OneLength, Missing
<1> QED
  BY <1>1, <1>2, <1>3, <1>4, <1>5 DEF LiveInv

LEMMA LiveInvStep == LiveInv /\ [LiveNext]_liveVars => LiveInv'
<1> SUFFICES ASSUME LiveInv, [LiveNext]_liveVars PROVE LiveInv'
  OBVIOUS
<1>1. CASE LiveNext
  <2>1. TypeInv'
    BY <1>1, TypeMain, TypeReader, TypeGui DEF LiveNext
  <2> QED
    BY <1>1, <2>1, WindowStep, FreshStep, LockStep, ColumnStep DEF LiveInv
<1>2. CASE UNCHANGED liveVars
  BY <1>2 DEF liveVars, mainVars, sourceVars, LiveInv, TypeInv, WindowInv, InSession, FreshInv,
              LockInv, Mid, ColumnInv, OneLength, Missing
<1> QED
  BY <1>1, <1>2

\* The window's data keeps its shape: readers, states and drawing hold what the
\* code's types allow, sessions not opened are untouched, the lock is held exactly
\* while a sample is half appended or a panel copied, and a series' columns are of
\* one length but for the sample being appended.
THEOREM LiveInvariant == LiveSpec => []LiveInv
<1> QED
  BY LiveInvInit, LiveInvStep, PTL DEF LiveSpec

-----------------------------------------------------------------------------
(* The capture. *)

LEMMA CaptureInit == LiveInit => CaptureInv
BY DEF LiveInit, CaptureInv

\* What the capture's invariant says of one session.
Captured(s) ==
  config[s].record =>
    /\ \/ handed[s] = sink[s].lines
       \/ /\ ~sink[s].open /\ reader[s].pc \in {"failed", "none"}
          /\ \E line \in Lines : handed[s] = Append(sink[s].lines, line)
    /\ state[s].seen <= Len(sink[s].lines)
    /\ reader[s].pc = "parse" => state[s].seen < Len(sink[s].lines)

LEMMA CaptureStep == LiveInv /\ CaptureInv /\ [LiveNext]_liveVars => CaptureInv'
<1> SUFFICES ASSUME LiveInv, CaptureInv, [LiveNext]_liveVars PROVE CaptureInv'
  OBVIOUS
<1> USE DEF LiveInv
<1>1. \A s \in Sessions : Captured(s)
  BY DEF CaptureInv, Captured
<1>2. SUFFICES ASSUME NEW s \in Sessions PROVE Captured(s)'
  BY DEF CaptureInv, Captured
<1>3. /\ reader[s] \in [pc : ReaderPcs, record : Records] /\ state[s] \in Monitors
      /\ sink[s] \in [open : BOOLEAN, lines : Seq(Lines)] /\ handed[s] \in Seq(Lines)
      /\ config[s] \in [source : {"none", "serial", "replay"}, align : BOOLEAN, record : BOOLEAN]
  BY DEF TypeInv, Readers, Sinks, Configs
<1>4. Captured(s)
  BY <1>1
<1>5. ASSUME config'[s].record = config[s].record, handed'[s] = handed[s],
             sink'[s].lines = sink[s].lines, sink[s].open \/ ~sink'[s].open,
             state'[s].seen \in {0, state[s].seen},
             reader'[s].pc = reader[s].pc \/ reader'[s].pc \in {"none", "failed", "done", "pull", "heading", "rest"},
             reader[s].pc \in {"failed", "none"} => reader'[s].pc \in {"failed", "none"},
             sink'[s].open => sink[s].open
      PROVE  Captured(s)'
  <2>1. Len(sink[s].lines) \in Nat /\ state[s].seen \in Nat
    BY <1>3 DEF Monitors
  <2> QED
    BY <1>4, <1>5, <2>1 DEF Captured
<1>6. ASSUME Exit PROVE Captured(s)'
  BY <1>3, <1>5, <1>6, FreshTypes DEF Exit, NoRecordHeld
<1>7. CASE OpenSession
  <2>1. CASE s = session + 1
    <3>1. /\ state[s].seen = 0 /\ sink[s].lines = <<>> /\ handed[s] = <<>>
          /\ state' = state /\ handed' = handed
      BY <1>7, <2>1, FreshTypes DEF FreshInv, OpenSession, TypeInv
    <3>2. sink'[s].lines = <<>>
      BY <1>7, <2>1, <3>1 DEF OpenSession, TypeInv, Sinks
    <3>3. reader'[s].pc = "pull"
      BY <1>7, <2>1 DEF OpenSession, TypeInv, Readers
    <3> QED
      BY <3>1, <3>2, <3>3 DEF Captured
  <2>2. CASE s # session + 1
    <3>1. /\ config'[s] = config[s] /\ sink'[s] = sink[s] /\ reader'[s] = reader[s]
          /\ state' = state /\ handed' = handed
      BY <1>7, <2>2 DEF OpenSession, TypeInv, Sinks, Readers, Configs
    <3> QED
      BY <1>5, <3>1
  <2> QED
    BY <2>1, <2>2
<1>8. CASE CloseWindow \/ CloseSource
  BY <1>5, <1>8 DEF CloseWindow, CloseSource, sourceVars
<1>9. CASE Join
  <2>1. CASE menu
    <3>1. /\ sink' = [sink EXCEPT ![session].open = FALSE]
          /\ config' = [config EXCEPT ![session].align = FALSE]
          /\ state' \in {state, [state EXCEPT ![session] = FreshMonitor]}
          /\ reader' = reader /\ handed' = handed
      BY <1>9, <2>1 DEF Join
    <3>2. sink'[s].lines = sink[s].lines /\ (sink'[s].open => sink[s].open)
      BY <1>3, <3>1 DEF TypeInv, Sinks
    <3>3. config'[s].record = config[s].record
      BY <1>3, <3>1 DEF TypeInv, Configs
    <3>4. state'[s].seen \in {0, state[s].seen}
      BY <3>1, FreshTypes DEF TypeInv
    <3> QED
      BY <1>5, <3>1, <3>2, <3>3, <3>4
  <2>2. CASE ~menu
    BY <1>6, <1>9, <2>2 DEF Join
  <2> QED
    BY <2>1, <2>2
<1>10. CASE GuiStep
  <2>1. /\ UNCHANGED <<config, reader, sink, handed>> /\ state'[s].seen = state[s].seen
    BY <1>10, GuiFrame DEF SameData
  <2> QED
    BY <1>5, <2>1
<1>11. ASSUME NEW r \in Sessions, ReaderStep(r) PROVE Captured(s)'
  <2>1. config' = config
    BY <1>11, ReaderFrame
  <2>2. CASE s # r
    <3>1. /\ reader'[s] = reader[s] /\ state'[s] = state[s]
          /\ sink'[s] = sink[s] /\ handed'[s] = handed[s]
      BY <1>11, <2>2, ReaderFrame
    <3> QED
      BY <1>5, <2>1, <3>1
  <2>3. CASE Receive(s)
    <3>1. PICK line : handed' = [handed EXCEPT ![s] = Append(@, line)] /\ Tee(s, line)
                      /\ line \in Lines
      <4>1. PICK kind \in KindsOf(s) :
              LET line == [kind |-> kind, time |-> Handed + 1]
              IN  handed' = [handed EXCEPT ![s] = Append(@, line)] /\ Tee(s, line)
        BY <2>3 DEF Receive
      <4>2. [kind |-> kind, time |-> Handed + 1] \in Lines
        <5>1. Handed + 1 \in 1 .. MaxLines
          BY <2>3, LiveAssumption DEF Receive
        <5> QED
          BY <5>1 DEF KindsOf, Lines
      <4> QED
        BY <4>1, <4>2
    <3>2. handed'[s] = Append(handed[s], line)
      BY <3>1 DEF TypeInv
    <3>3. reader[s].pc = "pull"
      BY <2>3 DEF Receive
    <3>4. SUFFICES ASSUME config[s].record PROVE Captured(s)'
      BY <2>1 DEF Captured
    <3>5. handed[s] = sink[s].lines /\ state[s].seen <= Len(sink[s].lines)
      BY <1>4, <3>3, <3>4 DEF Captured
    <3>6. CASE sink[s].open
      <4>1. sink' = [sink EXCEPT ![s].lines = Append(@, line)] /\ state' = state
        BY <3>1, <3>4, <3>6 DEF Tee
      <4>2. sink'[s].lines = Append(sink[s].lines, line)
        BY <1>3, <4>1 DEF TypeInv, Sinks
      <4>3. Len(sink'[s].lines) = Len(sink[s].lines) + 1 /\ Len(sink[s].lines) \in Nat
            /\ state[s].seen \in Nat
        BY <1>3, <4>2 DEF Monitors
      <4> QED
        BY <3>2, <3>5, <4>1, <4>2, <4>3 DEF Captured
    <3>7. CASE ~sink[s].open
      <4>1. Raise(s) /\ sink' = sink
        BY <3>1, <3>4, <3>7 DEF Tee
      <4>2. reader'[s].pc = "failed" /\ state'[s].seen = state[s].seen
        BY <1>3, <4>1 DEF Raise, NoRecordHeld, TypeInv, Readers, Monitors
      <4> QED
        BY <3>1, <3>2, <3>5, <3>7, <4>1, <4>2 DEF Captured
    <3> QED
      BY <3>6, <3>7
  <2>4. CASE Parse(s)
    <3>1. sink' = sink /\ handed' = handed /\ reader[s].pc = "parse"
      BY <2>4 DEF Parse, sourceVars
    <3>2. reader'[s].pc \in {"pull", "lock"}
      BY <1>3, <2>4 DEF Parse, TypeInv, Readers
    <3>3. state'[s].seen = state[s].seen + 1
      <4>1. \/ state'[s] = [state[s] EXCEPT !.seen = @ + 1]
            \/ state'[s] = [state[s] EXCEPT !.seen = @ + 1, !.parsed = @ + 1]
        BY <2>4 DEF Parse, TypeInv
      <4> QED
        BY <1>3, <4>1 DEF Monitors
    <3>4. Len(sink[s].lines) \in Nat /\ state[s].seen \in Nat
      BY <1>3 DEF Monitors
    <3> QED
      BY <1>4, <2>1, <3>1, <3>2, <3>3, <3>4 DEF Captured
  <2>5. CASE ReaderStep(s) /\ ~Receive(s) /\ ~Parse(s)
    <3>1. sink' = sink /\ handed' = handed
      BY <2>5 DEF ReaderStep, Drains, Unplug, Exhaust, Apply, AppendTime, AppendHeading, AppendRest,
                  sourceVars
    <3>2. state'[s].seen = state[s].seen
      <4>1. PICK series : series = SeriesOf(reader[s].record)
        OBVIOUS
      <4> QED
        BY <2>5, <4>1, ReaderData
    <3>3. /\ reader'[s].pc \in {"none", "failed", "done", "pull", "heading", "rest"}
          /\ reader[s].pc \notin {"failed", "none"}
      BY <1>3, <2>5 DEF ReaderStep, Drains, Unplug, Exhaust, Apply, AppendTime, AppendHeading,
                        AppendRest, Raise, NoRecordHeld, TypeInv, Readers
    <3> QED
      BY <1>5, <2>1, <3>1, <3>2, <3>3
  <2> QED
    BY <1>11, <2>2, <2>3, <2>4, <2>5
<1>12. CASE UNCHANGED liveVars
  BY <1>5, <1>12 DEF liveVars, mainVars, sourceVars
<1> QED
  BY <1>6, <1>7, <1>8, <1>9, <1>10, <1>11, <1>12 DEF LiveNext, MainStep, AlignAborts, NoBoardFound, Quit

LEMMA PrefixFacts ==
  ASSUME NEW S, NEW q \in Seq(S)
  PROVE  IsPrefix(q, q) /\ \A x \in S : IsPrefix(q, Append(q, x))
<1>1. SubSeq(q, 1, Len(q)) = q
  OBVIOUS
<1>2. \A x \in S : SubSeq(Append(q, x), 1, Len(q)) = q
  OBVIOUS
<1> QED
  BY <1>1, <1>2 DEF IsPrefix

\* A captured stream is complete (_tee in __main__.py): while the capture file is
\* open every line the source handed over is in it before the reader parses it, and
\* a reader left behind by its session takes at most one line more, unwritten.
THEOREM CaptureIsComplete == LiveSpec => []CaptureHoldsTheStream
<1>1. LiveInv /\ CaptureInv => CaptureHoldsTheStream
  <2> SUFFICES ASSUME LiveInv, CaptureInv, NEW s \in Sessions, config[s].record
               PROVE  /\ IsPrefix(sink[s].lines, handed[s])
                      /\ Len(handed[s]) - Len(sink[s].lines) <= IF sink[s].open THEN 0 ELSE 1
                      /\ state[s].seen <= Len(sink[s].lines)
    BY DEF CaptureHoldsTheStream
  <2>1. sink[s].lines \in Seq(Lines)
    BY DEF LiveInv, TypeInv, Sinks
  <2>2. CASE handed[s] = sink[s].lines
    BY <2>1, <2>2, PrefixFacts DEF CaptureInv
  <2>3. CASE ~sink[s].open /\ \E line \in Lines : handed[s] = Append(sink[s].lines, line)
    BY <2>1, <2>3, PrefixFacts DEF CaptureInv
  <2> QED
    BY <2>2, <2>3 DEF CaptureInv
<1> QED
  BY <1>1, LiveInvInit, LiveInvStep, CaptureInit, CaptureStep, PTL DEF LiveSpec

-----------------------------------------------------------------------------
(* The scroll panels implement StreamView. *)

LEMMA CopyInit == LiveInit => CopyInv
BY DEF LiveInit, CopyInv, IdleGui

\* While the session's lock is the drawing's, its series stand still.
LEMMA CopiedStandsStill ==
  ASSUME LiveInv, gui.pc \in {"fused", "open"}, NEW s \in Sessions, ReaderStep(s)
  PROVE  Shown'.fused = Shown.fused /\ Shown'.open = Shown.open /\ Shown'.latest = Shown.latest
<1>1. session' = session /\ session \in Sessions
  BY ReaderFrame DEF LiveInv, WindowInv, InSession
<1>2. CASE s # session
  <2>1. state'[session] = state[session]
    BY <1>1, <1>2, ReaderFrame DEF LiveInv
  <2> QED
    BY <1>1, <2>1 DEF Shown
<1>3. CASE s = session
  <2>1. lock[s] = "gui" /\ ~Mid(s)
    BY <1>1, <1>3 DEF LiveInv, LockInv
  <2>2. ~AppendTime(s) /\ ~AppendHeading(s) /\ ~AppendRest(s)
    BY <2>1 DEF AppendTime, AppendHeading, AppendRest, Mid
  <2>3. PICK series : series = SeriesOf(reader[s].record)
    OBVIOUS
  <2>4. /\ state'[s].fused = state[s].fused /\ state'[s].open = state[s].open
        /\ state'[s].latest = state[s].latest
    BY <2>2, <2>3, ReaderData
  <2> QED
    BY <1>1, <1>3, <2>4 DEF Shown
<1> QED
  BY <1>2, <1>3

LEMMA CopyStep == LiveInv /\ CopyInv /\ [LiveNext]_liveVars => CopyInv'
<1> SUFFICES ASSUME LiveInv, CopyInv, [LiveNext]_liveVars PROVE CopyInv'
  OBVIOUS
<1>1. gui \in Guis
  BY DEF LiveInv, TypeInv
<1>2. CASE MainStep
  <2>1. gui'.pc = "idle"
    BY <1>2 DEF MainStep, AlignAborts, OpenSession, NoBoardFound, Quit, CloseWindow, CloseSource,
                Join, Exit, IdleGui, LiveInv, WindowInv
  <2> QED
    BY <2>1 DEF CopyInv
<1>3. CASE GuiStep
  <2>1. /\ session' = session /\ session \in Sessions
        /\ Shown'.fused = Shown.fused /\ Shown'.open = Shown.open /\ Shown'.latest = Shown.latest
    BY <1>3, GuiFrame DEF LiveInv, Shown, SameData
  <2>2. \A pc : [gui EXCEPT !.pc = pc].pc = pc
    BY <1>1 DEF Guis
  <2>3. CASE SnapshotBegin
    <3> DEFINE now == IF Shown.latest = NoStamp THEN 0 ELSE Shown.latest
               copy == [Snapshot EXCEPT !.now = now, !.t["fused"] = Shown.fused.t]
    <3>1. gui'.pc = "fused" /\ gui'.copy = copy
      BY <1>1, <2>3 DEF SnapshotBegin, Guis
    <3>2. copy.now = now /\ copy.t["fused"] = Shown.fused.t
      BY DEF Snapshot, Tracks
    <3> HIDE DEF copy, now
    <3>3. now = IF Shown'.latest = NoStamp THEN 0 ELSE Shown'.latest
      BY <2>1 DEF now
    <3> QED
      BY <2>1, <3>1, <3>2, <3>3 DEF CopyInv
  <2>4. CASE SnapshotFused
    <3> DEFINE copy == [gui.copy EXCEPT !.values["fused"] = Shown.fused[Panel],
                                        !.t["open"] = Shown.open.t]
    <3>1. gui'.pc = "open" /\ gui'.copy = copy /\ gui'.panel = gui.panel /\ gui.pc = "fused"
      BY <1>1, <2>4 DEF SnapshotFused, Guis, Copies, Painting
    <3>2. gui.copy \in Copies
      BY <1>1 DEF Guis
    <3>3. /\ copy.now = gui.copy.now /\ copy.t["fused"] = gui.copy.t["fused"]
          /\ copy.t["open"] = Shown.open.t /\ copy.values["fused"] = Shown.fused[Panel]
      BY <3>2 DEF Copies, Tracks
    <3> HIDE DEF copy
    <3>4. Panel' = Panel
      BY <3>1 DEF Panel
    <3> QED
      BY <2>1, <3>1, <3>3, <3>4 DEF CopyInv
  <2>5. CASE ~SnapshotBegin /\ ~SnapshotFused
    <3>1. gui'.pc \notin {"fused", "open"}
      <4>1. CASE FirstPaint
        BY <4>1 DEF FirstPaint, Painting
      <4>2. CASE SnapshotOpen
        BY <4>2 DEF SnapshotOpen
      <4>3. CASE Paint \/ AlignTitle
        BY <4>3 DEF Paint, AlignTitle, IdleGui
      <4>4. CASE DrawTriad
        BY <2>2, <4>4 DEF DrawTriad
      <4>5. CASE DrawHeading
        BY <2>2, <4>5 DEF DrawHeading
      <4>6. CASE ReadFix
        BY <2>2, <4>6 DEF ReadFix
      <4>7. CASE DrawArrow
        BY <2>2, <4>7 DEF DrawArrow
      <4> QED
        BY <1>3, <2>5, <4>1, <4>2, <4>3, <4>4, <4>5, <4>6, <4>7 DEF GuiStep
    <3> QED
      BY <3>1 DEF CopyInv
  <2> QED
    BY <2>3, <2>4, <2>5
<1>4. ASSUME NEW s \in Sessions, ReaderStep(s) PROVE CopyInv'
  <2>1. gui' = gui
    BY <1>4, ReaderFrame DEF LiveInv
  <2>2. CASE gui.pc \in {"fused", "open"}
    <3>1. Shown'.fused = Shown.fused /\ Shown'.open = Shown.open /\ Shown'.latest = Shown.latest
      BY <1>4, <2>2, CopiedStandsStill
    <3> QED
      BY <2>1, <3>1 DEF CopyInv, Panel
  <2>3. CASE gui.pc \notin {"fused", "open"}
    BY <2>1, <2>3 DEF CopyInv
  <2> QED
    BY <2>2, <2>3
<1>5. CASE UNCHANGED liveVars
  BY <1>5 DEF liveVars, mainVars, CopyInv, Shown, Panel
<1> QED
  BY <1>2, <1>3, <1>4, <1>5 DEF LiveNext

\* The samples of a series, put together from its columns.
Woven(t, heading, roll, pitch) ==
  [i \in DOMAIN t |-> [t |-> t[i], heading |-> heading[i], roll |-> roll[i], pitch |-> pitch[i]]]

Samples == [t : 1 .. MaxLines, heading : Quarters, roll : Rolls, pitch : {0}]

\* The four columns of a series, of one length.
IsSeries(t, heading, roll, pitch, n) ==
  /\ t \in Seq(1 .. MaxLines) /\ heading \in Seq(Quarters) /\ roll \in Seq(Rolls)
  /\ pitch \in Seq({0})
  /\ n \in Nat /\ Len(t) = n /\ Len(heading) = n /\ Len(roll) = n /\ Len(pitch) = n

LEMMA WovenIsSeq ==
  ASSUME NEW t, NEW h, NEW r, NEW p, NEW n, IsSeries(t, h, r, p, n)
  PROVE  /\ Woven(t, h, r, p) \in Seq(Samples) /\ Len(Woven(t, h, r, p)) = n
         /\ \A i \in 1 .. n : Woven(t, h, r, p)[i] =
              [t |-> t[i], heading |-> h[i], roll |-> r[i], pitch |-> p[i]]
<1>1. DOMAIN t = 1 .. n /\ n \in Nat
  BY DEF IsSeries
<1>2. \A i \in 1 .. n : t[i] \in 1 .. MaxLines /\ h[i] \in Quarters /\ r[i] \in Rolls /\ p[i] \in {0}
  <2>1. ASSUME NEW S, NEW q \in Seq(S), Len(q) = n, NEW i \in 1 .. n PROVE q[i] \in S
    BY <2>1
  <2>2. /\ t \in Seq(1 .. MaxLines) /\ h \in Seq(Quarters) /\ r \in Seq(Rolls) /\ p \in Seq({0})
        /\ Len(t) = n /\ Len(h) = n /\ Len(r) = n /\ Len(p) = n
    BY DEF IsSeries
  <2>3. \A i \in 1 .. n : t[i] \in 1 .. MaxLines
    BY <2>1, <2>2
  <2>4. \A i \in 1 .. n : h[i] \in Quarters
    BY <2>1, <2>2
  <2>5. \A i \in 1 .. n : r[i] \in Rolls
    BY <2>1, <2>2
  <2>6. \A i \in 1 .. n : p[i] \in {0}
    BY <2>1, <2>2
  <2> QED
    BY <2>3, <2>4, <2>5, <2>6
<1>3. \A i \in 1 .. n :
        [t |-> t[i], heading |-> h[i], roll |-> r[i], pitch |-> p[i]] \in Samples
  BY <1>2 DEF Samples
<1> QED
  BY <1>1, <1>3 DEF Woven

\* Pushing every column is keeping the last MaxLen of the samples with one more.
LEMMA WovenPush ==
  ASSUME NEW t, NEW h, NEW r, NEW p, NEW n, IsSeries(t, h, r, p, n), n <= MaxLen,
         NEW t2, NEW h2, NEW r2, NEW p2, NEW sample \in Samples,
         IsPush(1 .. MaxLines, t2, t, sample.t), IsPush(Quarters, h2, h, sample.heading),
         IsPush(Rolls, r2, r, sample.roll), IsPush({0}, p2, p, sample.pitch)
  PROVE  LET old == Woven(t, h, r, p)
             new == Woven(t2, h2, r2, p2)
             grown == Append(old, sample)
         IN  /\ new # <<>> /\ Last(new) = sample
             /\ new = IF Len(grown) > MaxLen THEN Tail(grown) ELSE grown
<1> DEFINE old == Woven(t, h, r, p)
           new == Woven(t2, h2, r2, p2)
           grown == Append(old, sample)
           m == IF n = MaxLen THEN n ELSE n + 1
<1>1. n \in Nat /\ m \in Nat \ {0} /\ MaxLen \in Nat \ {0}
  BY MaxLenAssumption DEF IsSeries
<1>2. IsSeries(t2, h2, r2, p2, m)
  BY <1>1 DEF IsSeries, IsPush
<1>3. /\ old \in Seq(Samples) /\ Len(old) = n
      /\ \A i \in 1 .. n : old[i] = [t |-> t[i], heading |-> h[i], roll |-> r[i], pitch |-> p[i]]
  BY WovenIsSeq
<1>4. /\ new \in Seq(Samples) /\ Len(new) = m
      /\ \A i \in 1 .. m : new[i] = [t |-> t2[i], heading |-> h2[i], roll |-> r2[i], pitch |-> p2[i]]
  BY <1>2, WovenIsSeq
<1>5. new[m] = sample
  <2>1. t2[m] = sample.t /\ h2[m] = sample.heading /\ r2[m] = sample.roll /\ p2[m] = sample.pitch
    BY <1>2 DEF IsPush, IsSeries
  <2>2. sample = [t |-> sample.t, heading |-> sample.heading, roll |-> sample.roll,
                  pitch |-> sample.pitch]
    BY DEF Samples
  <2>3. m \in 1 .. m
    BY <1>1
  <2> QED
    BY <1>4, <2>1, <2>2, <2>3
<1> HIDE DEF old, new
<1>6. CASE n = MaxLen
  <2>1. \A i \in 1 .. n - 1 : new[i] = old[i + 1]
    <3>1. ASSUME NEW i \in 1 .. n - 1 PROVE new[i] = old[i + 1]
      <4>1. i \in 1 .. m /\ i + 1 \in 1 .. n
        BY <1>1, <1>6
      <4>2. t2[i] = t[i + 1] /\ h2[i] = h[i + 1] /\ r2[i] = r[i + 1] /\ p2[i] = p[i + 1]
        BY <1>6 DEF IsPush, IsSeries
      <4> QED
        BY <1>3, <1>4, <4>1, <4>2
    <3> QED
      BY <3>1
  <2>2. /\ grown \in Seq(Samples) /\ Len(grown) = n + 1 /\ grown[n + 1] = sample
        /\ \A i \in 1 .. n : grown[i] = old[i]
    BY <1>1, <1>3
  <2> HIDE DEF grown
  <2>3. /\ Tail(grown) \in Seq(Samples) /\ Len(Tail(grown)) = n
        /\ \A i \in 1 .. n : Tail(grown)[i] = grown[i + 1]
    BY <1>1, <2>2
  <2>4. \A i \in 1 .. n : new[i] = Tail(grown)[i]
    <3>1. ASSUME NEW i \in 1 .. n PROVE new[i] = Tail(grown)[i]
      <4>1. CASE i = n
        BY <1>5, <1>6, <2>2, <2>3, <4>1
      <4>2. CASE i # n
        <5>1. i \in 1 .. n - 1 /\ i + 1 \in 1 .. n
          BY <1>1, <4>2
        <5> QED
          BY <2>1, <2>2, <2>3, <5>1
      <4> QED
        BY <4>1, <4>2
    <3> QED
      BY <3>1
  <2>5. new = Tail(grown)
    BY <1>4, <1>6, <2>3, <2>4, SeqEqual
  <2> QED
    BY <1>1, <1>4, <1>5, <1>6, <2>2, <2>5 DEF Last, new, old, grown
<1>7. CASE n # MaxLen
  <2>1. \A i \in 1 .. n : new[i] = old[i]
    <3>1. ASSUME NEW i \in 1 .. n PROVE new[i] = old[i]
      <4>1. i \in 1 .. m
        BY <1>1
      <4>2. t2[i] = t[i] /\ h2[i] = h[i] /\ r2[i] = r[i] /\ p2[i] = p[i]
        BY <1>7 DEF IsPush, IsSeries
      <4> QED
        BY <1>3, <1>4, <4>1, <4>2
    <3> QED
      BY <3>1
  <2>2. /\ grown \in Seq(Samples) /\ Len(grown) = n + 1 /\ grown[n + 1] = sample
        /\ \A i \in 1 .. n : grown[i] = old[i]
    BY <1>1, <1>3
  <2> HIDE DEF grown
  <2>3. \A i \in 1 .. n + 1 : new[i] = grown[i]
    BY <1>1, <1>5, <1>7, <2>1, <2>2
  <2>4. new = grown
    BY <1>1, <1>4, <1>7, <2>2, <2>3, SeqEqual
  <2> QED
    BY <1>1, <1>4, <1>5, <1>7, <2>2, <2>4 DEF Last, new, old, grown
<1> QED
  BY <1>6, <1>7
Shows(track) == Woven(Shown[track].t, Column(track, "heading"), Column(track, "roll"),
                    Column(track, "pitch"))

\* The log is the series' columns, with what is still to come of the last sample.
LogFacts(track) ==
  /\ LogOf(track) = Shows(track)
  /\ IsSeries(Shown[track].t, Column(track, "heading"), Column(track, "roll"),
              Column(track, "pitch"), Len(Shown[track].t))
  /\ Len(Shown[track].t) <= MaxLen

LEMMA LogIsSeries ==
  LiveInv /\ InSession => \A track \in Tracks : LogFacts(track)
<1> SUFFICES ASSUME LiveInv, InSession, NEW track \in Tracks PROVE LogFacts(track)
  OBVIOUS
<1> DEFINE n == Len(Shown[track].t)
           value(name) == Pending(session)[name]
           missing(name) == Missing(session, track, name)
<1>1. session \in Sessions /\ state[session] = Shown /\ Shown[track] \in Serieses
  BY DEF LiveInv, WindowInv, TypeInv, Shown, Monitors, Tracks
<1>2. OneLength(session, track) /\ track \in Tracks
  BY <1>1 DEF LiveInv, ColumnInv
<1>3. \A name \in {"heading", "roll", "pitch"} :
        Column(track, name) = IF missing(name) THEN Push(Shown[track][name], value(name))
                              ELSE Shown[track][name]
  BY DEF Column, Missing, Mid, Appending
<1>4. \A name \in {"heading", "roll", "pitch"} :
        /\ Shown[track][name] \in Seq(Values(name))
        /\ missing(name) => value(name) \in Values(name)
  <2>1. ASSUME NEW name \in {"heading", "roll", "pitch"}, missing(name)
        PROVE  value(name) \in Values(name)
    <3>1. PendingFacts(session)
      BY <1>1, <2>1, PendingIsSample DEF LiveInv, Missing
    <3> QED
      BY <3>1 DEF PendingFacts, Values
  <2>2. \A name \in {"heading", "roll", "pitch"} : Shown[track][name] \in Seq(Values(name))
    BY <1>1 DEF Serieses, Values
  <2> QED
    BY <2>1, <2>2
<1>5. \A name \in Columns :
        IF missing(name) THEN n = IF Len(Shown[track][name]) = MaxLen THEN MaxLen
                                  ELSE Len(Shown[track][name]) + 1
        ELSE Len(Shown[track][name]) = n
  BY <1>1, <1>2 DEF OneLength
<1> HIDE DEF missing, value, n
<1>6. ASSUME NEW name \in {"heading", "roll", "pitch"}
      PROVE  Column(track, name) \in Seq(Values(name)) /\ Len(Column(track, name)) = n
  <2>1. IF missing(name) THEN n = IF Len(Shown[track][name]) = MaxLen THEN MaxLen
                                  ELSE Len(Shown[track][name]) + 1
        ELSE Len(Shown[track][name]) = n
    BY <1>5, <1>6 DEF Columns
  <2>2. CASE missing(name)
    <3>1. Column(track, name) = Push(Shown[track][name], value(name))
      BY <1>3, <2>2
    <3>2. IsPush(Values(name), Column(track, name), Shown[track][name], value(name))
      BY <1>4, <2>2, <3>1, PushFacts
    <3> QED
      BY <2>1, <2>2, <3>2 DEF IsPush
  <2>3. CASE ~missing(name)
    BY <1>3, <1>4, <2>1, <2>3
  <2> QED
    BY <2>2, <2>3
<1>7. Shown[track].t \in Seq(1 .. MaxLines) /\ n = Len(Shown[track].t) /\ n <= MaxLen
  BY <1>1, <1>2 DEF Serieses, OneLength, n
<1>8. n \in Nat
  BY <1>7
<1>9. /\ Column(track, "heading") \in Seq(Quarters) /\ Column(track, "roll") \in Seq(Rolls)
      /\ Column(track, "pitch") \in Seq({0})
  BY <1>6 DEF Values
<1>10. LogOf(track) = Shows(track)
  BY DEF LogOf, Shows, Woven
<1> QED
  BY <1>6, <1>7, <1>8, <1>9, <1>10 DEF LogFacts, IsSeries

\* A step that leaves times, filled columns and clock alone leaves the log alone.
LEMMA SameLog ==
  ASSUME InSession' <=> InSession, Now' = Now,
         InSession => \A track \in Tracks :
           /\ Shown'[track].t = Shown[track].t
           /\ \A name \in {"heading", "roll", "pitch"} : Column(track, name)' = Column(track, name)
  PROVE  UNCHANGED <<[track \in Tracks |-> LogOf(track)], Now>>
<1>1. \A track \in Tracks : LogOf(track)' = LogOf(track)
  BY DEF LogOf
<1> QED
  BY <1>1
LEMMA RefinesInit == LiveInit => Stream!Init
<1> SUFFICES ASSUME LiveInit PROVE Stream!Init
  OBVIOUS
<1>1. ~InSession /\ view = FreshView
  BY DEF LiveInit, InSession
<1> QED
  BY <1>1 DEF LogOf, Now, FreshView, Stream!Init, Stream!Blank

\* The main thread starts the view afresh, or leaves it alone.
LEMMA MainRefines ==
  ASSUME LiveInv, MainStep
  PROVE  Stream!Reset \/ UNCHANGED <<[track \in Tracks |-> LogOf(track)], Now, view.lines>>
<1>1. ASSUME view' = FreshView, \A track \in Tracks : LogOf(track)' = <<>>, Now' = 0
      PROVE  Stream!Reset
  BY <1>1 DEF FreshView, Stream!Reset, Stream!Blank
<1>2. ASSUME view' = FreshView, ~InSession' PROVE Stream!Reset
  <2>1. (\A track \in Tracks : LogOf(track)' = <<>>) /\ Now' = 0
    BY <1>2 DEF LogOf, Now
  <2> QED
    BY <1>1, <1>2, <2>1
<1>3. CASE OpenSession
  <2> DEFINE next == session + 1
  <2>1. next \in Sessions /\ next > session
    BY <1>3, LiveAssumption DEF OpenSession, LiveInv, TypeInv, Sessions
  <2>2. /\ session' = next /\ view' = FreshView /\ state' = state /\ ui' = "live"
        /\ reader' = [reader EXCEPT ![next].pc = "pull"]
    BY <1>3 DEF OpenSession
  <2>3. state[next] = FreshMonitor
    BY <2>1 DEF LiveInv, FreshInv
  <2>4. reader'[next].pc = "pull"
    BY <2>1, <2>2 DEF LiveInv, TypeInv, Readers
  <2> HIDE DEF next
  <2>5. Shown' = FreshMonitor /\ \A track \in Tracks : ~Appending(track)'
    BY <2>2, <2>3, <2>4 DEF Shown, Appending
  <2>6. \A track \in Tracks : Shown'[track].t = <<>>
    BY <2>5 DEF FreshMonitor, EmptySeries, Tracks
  <2>7. \A track \in Tracks : LogOf(track)' = <<>>
    BY <2>2, <2>6 DEF LogOf, InSession
  <2>8. Now' = 0
    BY <2>2, <2>5 DEF Now, FreshMonitor, NoStamp, Tracks
  <2> QED
    BY <1>1, <2>2, <2>7, <2>8
<1>4. CASE CloseWindow \/ CloseSource
  <2>1. InSession' /\ InSession /\ UNCHANGED <<session, reader, state, view>>
    BY <1>4 DEF CloseWindow, CloseSource, InSession
  <2>2. Now' = Now /\ \A track \in Tracks :
           /\ Shown'[track].t = Shown[track].t
           /\ \A name \in {"heading", "roll", "pitch"} : Column(track, name)' = Column(track, name)
    BY <2>1 DEF Now, Shown, Column, Appending, Pending
  <2> QED
    BY <2>1, <2>2, SameLog
<1>5. CASE NoBoardFound \/ Quit \/ Join \/ AlignAborts
  BY <1>2, <1>5 DEF NoBoardFound, Quit, Join, AlignAborts, Exit, InSession
<1> QED
  BY <1>3, <1>4, <1>5 DEF MainStep

\* The drawing leaves the log alone.
LEMMA GuiKeepsLog ==
  ASSUME LiveInv, GuiStep
  PROVE  UNCHANGED <<[track \in Tracks |-> LogOf(track)], Now>>
<1>1. /\ session' = session /\ session \in Sessions /\ ui' = ui /\ reader' = reader
      /\ SameData(state'[session], state[session])
  BY GuiFrame DEF LiveInv
<1>2. /\ Shown'.fused = Shown.fused /\ Shown'.open = Shown.open /\ Shown'.latest = Shown.latest
      /\ Pending(session)' = Pending(session)
  BY <1>1 DEF SameData, Shown, Pending
<1>3. \A track \in Tracks : Shown'[track] = Shown[track] /\ (Appending(track)' <=> Appending(track))
  BY <1>1, <1>2 DEF Tracks, Appending
<1>4. Now' = Now
  <2>1. InSession' <=> InSession
    BY <1>1 DEF InSession
  <2>2. (Appending("fused") \/ Appending("open"))' <=> (Appending("fused") \/ Appending("open"))
    BY <1>3 DEF Tracks
  <2> QED
    BY <1>1, <1>2, <2>1, <2>2 DEF Now
<1>5. \A track \in Tracks, name \in {"heading", "roll", "pitch"} :
        Column(track, name)' = Column(track, name)
  BY <1>1, <1>2, <1>3 DEF Column
<1> QED
  BY <1>1, <1>3, <1>4, <1>5, SameLog DEF InSession

\* Outside SnapshotOpen the drawing leaves the lines alone.
LEMMA GuiKeepsLines ==
  ASSUME LiveInv, GuiStep, ~SnapshotOpen
  PROVE  view'.lines = view.lines
<1>1. "lines" \in DOMAIN view
  BY DEF LiveInv, TypeInv
<1>2. CASE FirstPaint \/ SnapshotBegin \/ SnapshotFused
  BY <1>1, <1>2 DEF FirstPaint, SnapshotBegin, SnapshotFused
<1>3. CASE Paint \/ DrawTriad
  BY <1>1, <1>3 DEF Paint, DrawTriad
<1>4. CASE DrawHeading \/ ReadFix
  BY <1>1, <1>4 DEF DrawHeading, ReadFix
<1>5. CASE DrawArrow \/ AlignTitle
  BY <1>1, <1>5 DEF DrawArrow, AlignTitle
<1> QED
  BY <1>2, <1>3, <1>4, <1>5 DEF GuiStep
\* What the abstract view would show of a track, and what the drawing shows of
\* its copies of the track's columns.
Pairs(track) ==
  [i \in DOMAIN LogOf(track) |-> <<LogOf(track)[i].t - Now, LogOf(track)[i][Panel]>>]
CopiedPairs(copy, track) ==
  LET count == Min({Len(copy.t[track]), Len(copy.values[track])})
  IN  [i \in 1 .. count |-> <<copy.t[track][i] - copy.now, copy.values[track][i]>>]

\* The copies, taken under one lock, are the log.
LEMMA CopiedIsLogged ==
  ASSUME LiveInv, CopyInv, Painting("open"), NEW copy,
         copy = [gui.copy EXCEPT !.values["open"] = Shown.open[Panel]]
  PROVE  \A track \in Tracks :
           /\ copy.t[track] = <<>> <=> LogOf(track) = <<>>
           /\ CopiedPairs(copy, track) = Pairs(track)
<1>1. InSession /\ session \in Sessions /\ gui.copy \in Copies /\ gui.pc = "open"
  BY DEF Painting, InSession, LiveInv, WindowInv, TypeInv, Guis
<1>2. Panel \in {"heading", "roll", "pitch"}
  BY PanelFacts DEF LiveInv
<1>3. /\ copy.now = (IF Shown.latest = NoStamp THEN 0 ELSE Shown.latest)
      /\ \A track \in Tracks :
           copy.t[track] = Shown[track].t /\ copy.values[track] = Shown[track][Panel]
  <2>1. /\ copy.now = gui.copy.now /\ copy.t = gui.copy.t
        /\ copy.values["fused"] = gui.copy.values["fused"]
        /\ copy.values["open"] = Shown.open[Panel]
    BY <1>1 DEF Copies, Tracks
  <2> QED
    BY <1>1, <2>1 DEF CopyInv, Tracks
<1>4. ~Mid(session)
  BY <1>1 DEF LiveInv, LockInv
<1>5. copy.now = Now
  BY <1>1, <1>3, <1>4 DEF Now, Appending, Mid
<1>6. ASSUME NEW track \in Tracks
      PROVE  /\ copy.t[track] = <<>> <=> LogOf(track) = <<>>
             /\ CopiedPairs(copy, track) = Pairs(track)
  <2> DEFINE t == Shown[track].t
             h == Shown[track].heading
             r == Shown[track].roll
             p == Shown[track].pitch
             n == Len(t)
  <2>1. LogFacts(track)
    BY <1>1, LogIsSeries
  <2>2. Column(track, "heading") = h /\ Column(track, "roll") = r /\ Column(track, "pitch") = p
    BY <1>4 DEF Column, Appending, Mid
  <2>3. LogOf(track) = Woven(t, h, r, p) /\ IsSeries(t, h, r, p, n)
    BY <2>1, <2>2 DEF LogFacts, Shows
  <2> HIDE DEF t, h, r, p
  <2>4. /\ LogOf(track) \in Seq(Samples) /\ Len(LogOf(track)) = n
        /\ \A i \in 1 .. n : LogOf(track)[i] =
             [t |-> t[i], heading |-> h[i], roll |-> r[i], pitch |-> p[i]]
    BY <2>3, WovenIsSeq
  <2>5. n \in Nat /\ Len(h) = n /\ Len(r) = n /\ Len(p) = n /\ t \in Seq(1 .. MaxLines)
    BY <2>3 DEF IsSeries
  <2>6. copy.t[track] = t /\ Len(copy.t[track]) = n /\ Len(copy.values[track]) = n
    BY <1>2, <1>3, <2>5 DEF t, h, r, p
  <2> HIDE DEF n
  <2>7. ASSUME NEW i \in 1 .. n
        PROVE  LogOf(track)[i].t = t[i] /\ LogOf(track)[i][Panel] = copy.values[track][i]
    <3>1. LogOf(track)[i] = [t |-> t[i], heading |-> h[i], roll |-> r[i], pitch |-> p[i]]
      BY <2>4
    <3>2. copy.values[track] = Shown[track][Panel]
      BY <1>3
    <3>3. CASE Panel = "heading"
      BY <3>1, <3>2, <3>3 DEF h
    <3>4. CASE Panel = "roll"
      BY <3>1, <3>2, <3>4 DEF r
    <3>5. CASE Panel = "pitch"
      BY <3>1, <3>2, <3>5 DEF p
    <3> QED
      BY <1>2, <3>3, <3>4, <3>5
  <2>8. DOMAIN LogOf(track) = 1 .. n
    BY <2>4, <2>5
  <2>9. t = <<>> <=> LogOf(track) = <<>>
    BY <2>4, <2>5 DEF n
  <2>10. Min({n, n}) = n
    BY <2>5 DEF Min
  <2>11. CopiedPairs(copy, track) = [i \in 1 .. n |-> <<t[i] - Now, copy.values[track][i]>>]
    <3>1. Min({Len(copy.t[track]), Len(copy.values[track])}) = n
      BY <2>6, <2>10
    <3>2. PICK count : count = Min({Len(copy.t[track]), Len(copy.values[track])})
      OBVIOUS
    <3>3. CopiedPairs(copy, track) =
            [i \in 1 .. count |-> <<copy.t[track][i] - copy.now, copy.values[track][i]>>]
      BY <3>2 DEF CopiedPairs
    <3> QED
      BY <1>5, <2>6, <3>1, <3>2, <3>3
  <2>12. Pairs(track) = [i \in 1 .. n |-> <<t[i] - Now, copy.values[track][i]>>]
    BY <2>7, <2>8 DEF Pairs
  <2> QED
    BY <2>6, <2>9, <2>11, <2>12
<1> QED
  BY <1>6

\* The drawing's last snapshot step shows the panel.
LEMMA LookRefines ==
  ASSUME LiveInv, CopyInv, SnapshotOpen
  PROVE  Stream!Look(Panel)
<1> DEFINE copy == [gui.copy EXCEPT !.values["open"] = Shown.open[Panel]]
           data == [track \in Tracks |-> IF copy.t[track] # <<>> THEN Visible(copy, track)
                                         ELSE view.lines[Panel][track]]
<1>1. UNCHANGED <<[track \in Tracks |-> LogOf(track)], Now>>
  BY GuiKeepsLog DEF GuiStep
<1>2. Painting("open") /\ "lines" \in DOMAIN view
  BY DEF SnapshotOpen, LiveInv, TypeInv
<1>3. view'.lines = [view.lines EXCEPT ![Panel] = data]
  <2>1. PICK drawn, shown, ylim :
          /\ drawn = {track \in Tracks : copy.t[track] # <<>>}
          /\ shown = [track \in Tracks |-> IF track \in drawn THEN Visible(copy, track)
                                           ELSE view.lines[Panel][track]]
          /\ view' = [view EXCEPT !.lines[Panel] = shown, !.ylim[Panel] = ylim]
    BY DEF SnapshotOpen
  <2>2. shown = data
    BY <2>1
  <2> HIDE DEF data
  <2>3. view'.lines = [view.lines EXCEPT ![Panel] = shown]
    BY <1>2, <2>1
  <2> QED
    BY <2>2, <2>3
<1>4. ASSUME NEW track \in Tracks
      PROVE  data[track] = IF LogOf(track) = <<>> THEN view.lines[Panel][track]
                           ELSE Stream!Visible(Panel, track)
  <2>1. PICK c : c = copy
    OBVIOUS
  <2>2. (c.t[track] = <<>> <=> LogOf(track) = <<>>) /\ CopiedPairs(c, track) = Pairs(track)
    BY <1>2, <2>1, CopiedIsLogged
  <2>3. Stream!Visible(Panel, track) =
          SelectSeq(Pairs(track), LAMBDA pair : pair[1] >= -Window)
    BY DEF Stream!Visible, Pairs
  <2>4. Visible(c, track) = SelectSeq(CopiedPairs(c, track), LAMBDA pair : pair[1] >= -Window)
    BY DEF Visible, CopiedPairs
  <2>5. Visible(c, track) = Stream!Visible(Panel, track)
    BY <2>2, <2>3, <2>4
  <2> QED
    BY <2>1, <2>2, <2>5
<1> HIDE DEF data
<1>5. data = [track \in Tracks |-> IF LogOf(track) = <<>> THEN view.lines[Panel][track]
                                   ELSE Stream!Visible(Panel, track)]
  BY <1>4 DEF data
<1> QED
  BY <1>1, <1>3, <1>5 DEF Stream!Look
\* A sample arrives with the append of its time.
LEMMA ArriveRefines ==
  ASSUME LiveInv, LiveInv', InSession, AppendTime(session), NEW series,
         series = SeriesOf(reader[session].record)
  PROVE  Stream!Arrive(series)
<1> DEFINE log == [track \in Tracks |-> LogOf(track)]
           sample == Pending(session)'
           others == {"heading", "roll", "pitch"}
<1>1. session \in Sessions /\ series \in Tracks
  BY DEF LiveInv, WindowInv, SeriesOf, Tracks
<1>2. ReaderStep(session)
  BY DEF ReaderStep, Drains
<1>3. /\ UNCHANGED <<ui, session, view>> /\ ~Mid(session) /\ Mid(session)'
      /\ reader'[session].pc = "heading" /\ reader'[session].record = reader[session].record
  <2>1. reader[session] \in [pc : ReaderPcs, record : Records]
    BY <1>1 DEF LiveInv, TypeInv, Readers
  <2>2. reader' = [reader EXCEPT ![session].pc = "heading"] /\ reader[session].pc = "lock"
    BY DEF AppendTime
  <2>3. reader'[session].pc = "heading" /\ reader'[session].record = reader[session].record
    BY <1>1, <2>1, <2>2 DEF LiveInv, TypeInv, Readers
  <2> QED
    BY <1>1, <1>2, <2>2, <2>3, ReaderFrame DEF LiveInv, Mid
<1>4. /\ IsPush(1 .. MaxLines, Shown'[series].t, Shown[series].t, Stamp(reader[session].record))
      /\ \A track \in Tracks, name \in Columns :
           track # series \/ name # "t" => Shown'[track][name] = Shown[track][name]
  BY <1>1, <1>2, <1>3, ReaderData DEF Shown, SameBut
<1>5. InSession' /\ PendingFacts(session)'
  <2>1. InSession'
    BY <1>3 DEF InSession
  <2>2. (\A s \in Sessions : Mid(s) => PendingFacts(s))'
    BY PendingIsSample, PTL DEF LiveInv
  <2>3. PICK s : s = session
    OBVIOUS
  <2>4. s \in Sessions /\ session' = s /\ Mid(s)'
    BY <1>1, <1>3, <2>3 DEF Mid
  <2>5. PendingFacts(s)'
    BY <2>2, <2>4
  <2> QED
    BY <2>1, <2>4, <2>5 DEF PendingFacts, Pending
<1>6. sample.t = Stamp(reader[session].record) /\ sample \in Samples
  <2>1. /\ sample.t \in 1 .. MaxLines /\ sample.t = Stamp(reader'[session].record)
        /\ sample.heading \in Quarters /\ sample.roll \in Rolls /\ sample.pitch \in {0}
    BY <1>3, <1>5 DEF PendingFacts, Pending
  <2>2. sample = [t |-> sample.t, heading |-> sample.heading, roll |-> sample.roll,
                  pitch |-> sample.pitch]
    BY DEF Pending, SampleOf
  <2> QED
    BY <1>3, <2>1, <2>2 DEF Samples
<1>7. \A track \in Tracks : LogFacts(track)
  BY LogIsSeries
<1>8. (\A track \in Tracks : LogFacts(track))'
  BY <1>5, LogIsSeries, PTL
<1>9. \A track \in Tracks : (Appending(track)' <=> track = series) /\ ~Appending(track)
  BY <1>3 DEF Appending, Mid
<1>10. \A track \in Tracks, name \in others : Column(track, name) = Shown[track][name]
  BY <1>9 DEF Column
<1>11. \A track \in Tracks, name \in others :
         Column(track, name)' = IF track = series THEN Push(Shown[track][name], sample[name])
                                ELSE Shown[track][name]
  BY <1>3, <1>4, <1>9 DEF Column, Columns
<1> HIDE DEF sample
<1>12. \A name \in others : IsPush(Values(name), Column(series, name)', Column(series, name), sample[name])
  <2>1. \A name \in others : Column(series, name) \in Seq(Values(name))
    BY <1>1, <1>7 DEF LogFacts, IsSeries, Values
  <2>2. \A name \in others : sample[name] \in Values(name)
    BY <1>6 DEF Samples, Values
  <2> QED
    BY <1>1, <1>10, <1>11, <2>1, <2>2, PushFacts
<1>13. /\ LogOf(series)' # <<>> /\ Last(LogOf(series)') = sample
       /\ LogOf(series)' = LET grown == Append(LogOf(series), sample)
                           IN  IF Len(grown) > MaxLen THEN Tail(grown) ELSE grown
  <2>1. PICK t, h, r, p, n :
          /\ t = Shown[series].t /\ h = Column(series, "heading") /\ r = Column(series, "roll")
          /\ p = Column(series, "pitch") /\ n = Len(t)
    OBVIOUS
  <2>2. PICK t2, h2, r2, p2 :
          /\ t2 = Shown'[series].t /\ h2 = Column(series, "heading")'
          /\ r2 = Column(series, "roll")' /\ p2 = Column(series, "pitch")'
    OBVIOUS
  <2>3. IsSeries(t, h, r, p, n) /\ n <= MaxLen /\ LogOf(series) = Woven(t, h, r, p)
    BY <1>1, <1>7, <2>1 DEF LogFacts, Shows
  <2>4. LogOf(series)' = Woven(t2, h2, r2, p2)
    BY <1>1, <1>8, <2>2 DEF LogFacts, Shows
  <2>5. /\ IsPush(1 .. MaxLines, t2, t, sample.t) /\ IsPush(Quarters, h2, h, sample.heading)
        /\ IsPush(Rolls, r2, r, sample.roll) /\ IsPush({0}, p2, p, sample.pitch)
    BY <1>4, <1>6, <1>12, <2>1, <2>2 DEF Values
  <2> QED
    BY <1>6, <2>3, <2>4, <2>5, WovenPush
<1>14. \A track \in Tracks : track # series => LogOf(track)' = LogOf(track)
  <2>1. ASSUME NEW track \in Tracks, track # series PROVE LogOf(track)' = LogOf(track)
    <3>1. /\ Shown'[track].t = Shown[track].t
          /\ \A name \in others : Column(track, name)' = Column(track, name)
      BY <1>4, <1>10, <1>11, <2>1 DEF Columns
    <3> QED
      BY <1>5, <3>1 DEF LogOf
  <2> QED
    BY <2>1
<1>15. Now' = sample.t
  <2>1. (Appending("fused") \/ Appending("open"))'
    BY <1>1, <1>9 DEF Tracks
  <2> QED
    BY <1>5, <2>1 DEF Now, sample
<1>16. sample \in [t : 1 .. MaxLines, heading : Quarters, roll : {0, 90}, pitch : {0}]
  BY <1>6 DEF Samples, Rolls
<1>17. PICK grown : grown = Append(LogOf(series), sample)
  OBVIOUS
<1>18. log[series] = LogOf(series) /\ log'[series] = LogOf(series)'
  BY <1>1
<1>19. log' = [log EXCEPT ![series] = IF Len(grown) > MaxLen THEN Tail(grown) ELSE grown]
  BY <1>13, <1>14, <1>17
<1>20. Stream!Last(log'[series]) = sample
  BY <1>13, <1>18 DEF Last, Stream!Last
<1> HIDE DEF log
<1>21. /\ view'.lines = view.lines /\ log'[series] # <<>>
       /\ Stream!Last(log'[series]) \in [t : 1 .. MaxLines, heading : Quarters, roll : {0, 90}, pitch : {0}]
       /\ Now' = Stream!Last(log'[series]).t
  BY <1>3, <1>13, <1>15, <1>16, <1>18, <1>20
<1> QED
  BY <1>17, <1>18, <1>19, <1>20, <1>21 DEF Stream!Arrive, log
\* A reader shows the view one sample, or nothing.
LEMMA ReaderRefines ==
  ASSUME LiveInv, LiveInv', NEW s \in Sessions, ReaderStep(s)
  PROVE  \/ \E track \in Tracks : Stream!Arrive(track)
         \/ UNCHANGED <<[track \in Tracks |-> LogOf(track)], Now, view.lines>>
<1> DEFINE others == {"heading", "roll", "pitch"}
<1>1. /\ UNCHANGED <<ui, session, view>>
      /\ \A t \in Sessions \ {s} : reader'[t] = reader[t] /\ state'[t] = state[t]
  BY ReaderFrame DEF LiveInv
<1>2. InSession' <=> InSession
  BY <1>1 DEF InSession
<1>3. view'.lines = view.lines
  BY <1>1
<1>4. CASE ~InSession
  BY <1>2, <1>3, <1>4, SameLog DEF Now
<1>5. CASE InSession /\ s # session
  <2>1. /\ Shown' = Shown /\ reader'[session] = reader[session] /\ Pending(session)' = Pending(session)
        /\ session' = session
    BY <1>1, <1>5 DEF LiveInv, WindowInv, Shown, Pending
  <2>2. \A track \in Tracks : Appending(track)' <=> Appending(track)
    BY <2>1 DEF Appending
  <2>3. \A track \in Tracks, name \in others : Column(track, name)' = Column(track, name)
    BY <2>1, <2>2 DEF Column
  <2>4. (Appending("fused") \/ Appending("open"))' <=> (Appending("fused") \/ Appending("open"))
    BY <2>2 DEF Tracks
  <2>5. Now' = Now
    BY <1>2, <2>1, <2>4 DEF Now
  <2> QED
    BY <1>2, <1>3, <2>1, <2>3, <2>5, SameLog
<1>6. CASE InSession /\ s = session
  <2>1. PICK series : series = SeriesOf(reader[session].record)
    OBVIOUS
  <2>2. session \in Sessions /\ session' = session /\ Shown \in Monitors /\ series \in Tracks
    BY <1>1, <1>6, <2>1 DEF LiveInv, TypeInv, WindowInv, Shown, SeriesOf, Tracks
  <2>3. CASE AppendTime(session)
    BY <1>6, <2>1, <2>2, <2>3, ArriveRefines
  <2>4. CASE AppendHeading(session)
    <3>1. /\ reader[session].pc = "heading" /\ reader'[session].pc = "rest"
          /\ reader'[session].record = reader[session].record
      <4>1. reader[session] \in [pc : ReaderPcs, record : Records]
        BY <2>2 DEF LiveInv, TypeInv, Readers
      <4>2. reader' = [reader EXCEPT ![session].pc = "rest"] /\ reader[session].pc = "heading"
        BY <2>4 DEF AppendHeading
      <4> QED
        BY <2>2, <4>1, <4>2 DEF LiveInv, TypeInv, Readers
    <3>2. /\ Shown'[series].heading = Push(Shown[series].heading, Pending(session).heading)
          /\ \A track \in Tracks, name \in Columns :
               track # series \/ name # "heading" => Shown'[track][name] = Shown[track][name]
          /\ Pending(session)' = Pending(session)
      BY <1>6, <2>1, <2>2, <2>4, <3>1, ReaderData DEF Shown, SameBut, Pending
    <3>3. \A track \in Tracks :
            /\ Appending(track) <=> track = series
            /\ Appending(track)' <=> track = series
      BY <2>1, <2>2, <3>1 DEF Appending
    <3>4. ASSUME NEW track \in Tracks
          PROVE  /\ Shown'[track].t = Shown[track].t
                 /\ \A name \in others : Column(track, name)' = Column(track, name)
      BY <2>2, <3>1, <3>2, <3>3 DEF Column, Columns
    <3>5. Now' = Now
      <4>1. (Appending("fused") \/ Appending("open")) /\ (Appending("fused") \/ Appending("open"))'
        BY <2>2, <3>3 DEF Tracks
      <4> QED
        BY <1>2, <1>6, <2>2, <3>2, <4>1 DEF Now
    <3> QED
      BY <1>2, <1>3, <3>4, <3>5, SameLog
  <2>5. CASE AppendRest(session)
    <3>1. reader[session].pc = "rest" /\ ~Mid(session)'
      BY <1>6, <2>2, <2>5, ReaderLocks DEF AppendRest, LiveInv, AppendTime, AppendHeading
    <3>2. /\ Shown'[series].roll = Push(Shown[series].roll, Pending(session).roll)
          /\ Shown'[series].pitch = Push(Shown[series].pitch, Pending(session).pitch)
          /\ \A track \in Tracks, name \in Columns :
               track # series \/ name \notin {"roll", "pitch"} =>
                 Shown'[track][name] = Shown[track][name]
          /\ Shown'.latest = Pending(session).t
      BY <1>6, <2>1, <2>2, <2>5, ReaderData DEF Shown, SameBut
    <3>3. \A track \in Tracks : (Appending(track) <=> track = series) /\ ~Appending(track)'
      BY <2>1, <2>2, <3>1 DEF Appending, Mid
    <3>4. ASSUME NEW track \in Tracks
          PROVE  /\ Shown'[track].t = Shown[track].t
                 /\ \A name \in others : Column(track, name)' = Column(track, name)
      BY <2>2, <3>1, <3>2, <3>3 DEF Column, Columns
    <3>5. Now' = Now
      <4>1. (Appending("fused") \/ Appending("open")) /\ ~(Appending("fused") \/ Appending("open"))'
        BY <2>2, <3>3 DEF Tracks
      <4>2. Pending(session).t \in 1 .. MaxLines
        BY <2>2, <3>1, PendingIsSample DEF LiveInv, Mid, PendingFacts
      <4>3. Shown'.latest # NoStamp
        BY <3>2, <4>2, LiveAssumption DEF NoStamp
      <4> QED
        BY <1>2, <1>6, <3>2, <4>1, <4>3 DEF Now
    <3> QED
      BY <1>2, <1>3, <3>4, <3>5, SameLog
  <2>6. CASE ~AppendTime(session) /\ ~AppendHeading(session) /\ ~AppendRest(session)
    <3>1. Shown'.fused = Shown.fused /\ Shown'.open = Shown.open /\ Shown'.latest = Shown.latest
      BY <1>6, <2>1, <2>2, <2>6, ReaderData DEF Shown
    <3>2. ~Mid(session) /\ ~Mid(session)'
      BY <1>6, <2>2, <2>6, ReaderLocks DEF LiveInv, Mid
    <3>3. \A track \in Tracks : ~Appending(track) /\ ~Appending(track)' /\ Shown'[track] = Shown[track]
      BY <3>1, <3>2 DEF Appending, Mid, Tracks
    <3>4. \A track \in Tracks, name \in others : Column(track, name)' = Column(track, name)
      BY <3>3 DEF Column
    <3>5. Now' = Now
      BY <1>2, <3>1, <3>3 DEF Now, Tracks
    <3> QED
      BY <1>2, <1>3, <3>3, <3>4, <3>5, SameLog
  <2> QED
    BY <2>3, <2>4, <2>5, <2>6, <2>2
<1> QED
  BY <1>4, <1>5, <1>6

LEMMA LiveRefines ==
  LiveInv /\ LiveInv' /\ CopyInv /\ [LiveNext]_liveVars =>
    [Stream!Next]_<<[track \in Tracks |-> LogOf(track)], Now, view.lines>>
<1> SUFFICES ASSUME LiveInv, LiveInv', CopyInv, [LiveNext]_liveVars
             PROVE  \/ Stream!Next
                    \/ UNCHANGED <<[track \in Tracks |-> LogOf(track)], Now, view.lines>>
  OBVIOUS
<1>1. CASE MainStep
  BY <1>1, MainRefines DEF Stream!Next
<1>2. CASE SnapshotOpen
  BY <1>2, LookRefines, PanelFacts DEF Stream!Next, LiveInv
<1>3. CASE GuiStep /\ ~SnapshotOpen
  BY <1>3, GuiKeepsLog, GuiKeepsLines
<1>4. ASSUME NEW s \in Sessions, ReaderStep(s)
      PROVE  \/ Stream!Next
             \/ UNCHANGED <<[track \in Tracks |-> LogOf(track)], Now, view.lines>>
  BY <1>4, ReaderRefines DEF Stream!Next
<1>5. CASE UNCHANGED liveVars
  BY <1>5 DEF liveVars, mainVars, sourceVars, LogOf, Now, Shown, Column, Appending, Pending, InSession
<1> QED
  BY <1>1, <1>2, <1>3, <1>4, <1>5 DEF LiveNext

\* Every panel always shows whole samples of both tracks, with the clock, as they
\* were at one moment, whoever ran meanwhile: the reader that appends a sample
\* column by column, the lock it takes for it, and the copies _ScrollPanel.update
\* makes under the same lock implement the abstract view.
THEOREM ViewIsOfOneMoment == LiveSpec => ViewsShowTheLog
<1>1. LiveInit => Stream!Init
  BY RefinesInit
<1>2. LiveInv /\ LiveInv' /\ CopyInv /\ [LiveNext]_liveVars =>
        [Stream!Next]_<<[track \in Tracks |-> LogOf(track)], Now, view.lines>>
  BY LiveRefines
<1> QED
  BY <1>1, <1>2, LiveInvInit, LiveInvStep, CopyInit, CopyStep, PTL
     DEF LiveSpec, ViewsShowTheLog, Stream!Spec

-----------------------------------------------------------------------------
(* LiveView: the open-loop heading is the anchor plus the turn since.      *)

LEMMA LeastIsMin ==
  ASSUME NEW S \in SUBSET Int, NEW m \in S, \A x \in S : m <= x
  PROVE  Min(S) = m
<1>1. \A x \in S : (\A y \in S : x <= y) => x = m
  OBVIOUS
<1> QED
  BY <1>1 DEF Min

LEMMA GreatestIsMax ==
  ASSUME NEW S \in SUBSET Int, NEW m \in S, \A x \in S : x <= m
  PROVE  Max(S) = m
<1>1. \A x \in S : (\A y \in S : x >= y) => x = m
  OBVIOUS
<1> QED
  BY <1>1 DEF Max

LEMMA GreaterOfTwo ==
  ASSUME NEW a \in Int, NEW b \in Int
  PROVE  /\ Max({a, b}) \in {a, b} /\ Max({a, b}) \in Int
         /\ Max({a, b}) >= a /\ Max({a, b}) >= b
<1>1. CASE a >= b
  <2>1. Max({a, b}) = a
    BY <1>1, GreatestIsMax
  <2> QED
    BY <1>1, <2>1
<1>2. CASE b >= a
  <2>1. Max({a, b}) = b
    BY <1>2, GreatestIsMax
  <2> QED
    BY <1>2, <2>1
<1> QED
  BY <1>1, <1>2

LEMMA LesserOfTwo ==
  ASSUME NEW a \in Int, NEW b \in Int
  PROVE  Min({a, b}) = IF a <= b THEN a ELSE b
<1>1. CASE a <= b
  <2>1. Min({a, b}) = a
    BY <1>1, LeastIsMin
  <2> QED
    BY <1>1, <2>1
<1>2. CASE b < a
  <2>1. Min({a, b}) = b
    BY <1>2, LeastIsMin
  <2> QED
    BY <1>2, <2>1
<1> QED
  BY <1>1, <1>2

\* Sailed, for a leg that starts at s and lasts for d.
LEMMA Clipped ==
  ASSUME NEW s \in Int, NEW d \in Nat, NEW u \in Int
  PROVE  Max({0, Min({u - s, d})})
           = IF u - s <= 0 THEN 0 ELSE IF u - s <= d THEN u - s ELSE d
<1>1. PICK m \in Int : m = Min({u - s, d}) /\ m = IF u - s <= d THEN u - s ELSE d
  <2>1. PICK a \in Int : a = u - s
    OBVIOUS
  <2>2. Min({a, d}) = IF a <= d THEN a ELSE d
    BY LesserOfTwo
  <2> QED BY <2>1, <2>2
<1>2. Max({0, m}) \in {0, m} /\ Max({0, m}) >= 0 /\ Max({0, m}) >= m
  <2>1. PICK z \in Int : z = 0
    OBVIOUS
  <2>2. Max({z, m}) \in {z, m} /\ Max({z, m}) >= z /\ Max({z, m}) >= m
    BY GreaterOfTwo
  <2> QED BY <2>1, <2>2
<1> QED
  BY <1>1, <1>2

\* Angles that differ by whole turns.
SameDirection(a, b) == \E k \in Int : a - b = Turn * k

LEMMA WrapKeepsDirection ==
  ASSUME NEW a \in Int PROVE Wrap180(a) \in Int /\ SameDirection(Wrap180(a), a)
<1> DEFINE k == RoundHalfEven(a, Turn)
<1>1. k \in Int
  BY DEF RoundHalfEven, Turn
<1>2. Wrap180(a) - a = Turn * (0 - k)
  BY <1>1 DEF Wrap180, Turn
<1> HIDE DEF k
<1>3. Wrap180(a) \in Int
  BY <1>1 DEF Wrap180, Turn, k
<1> QED
  BY <1>1, <1>2, <1>3 DEF SameDirection

LEMMA DirectionsMeet ==
  ASSUME NEW a \in Int, NEW b \in Int, SameDirection(a, b) PROVE (a - b) % Turn = 0
<1>1. PICK k \in Int : a - b = Turn * k
  BY DEF SameDirection
<1> QED
  BY <1>1 DEF Turn

\* Directions may be turned by the same angle, and read on.
LEMMA DirectionsTurn ==
  ASSUME NEW a \in Int, NEW b \in Int, NEW c \in Int, NEW t \in Int,
         SameDirection(a, b), SameDirection(c, a - t)
  PROVE  SameDirection(c, b - t)
<1>1. PICK k \in Int : a - b = Turn * k
  BY DEF SameDirection
<1>2. PICK l \in Int : c - (a - t) = Turn * l
  BY DEF SameDirection
<1>3. c - (b - t) = Turn * (k + l) /\ k + l \in Int
  BY <1>1, <1>2 DEF Turn
<1> QED
  BY <1>3 DEF SameDirection

\* What the property says of a sequence of records.
OfKind(R, type) == {i \in DOMAIN R : R[i].type = type}
FixesOf(R) == {i \in OfKind(R, "G") : Scalar(R[i], "valid") = 1}
FirstOf(R) == Min(OfKind(R, "I"))
LastOf(R) == Max(OfKind(R, "I"))

Base(R, anchor) ==
  LET fused == {i \in OfKind(R, "F") : i < FirstOf(R)}
  IN  IF anchor \in FixesOf(R) THEN Scalar(R[anchor], "heading_deg")
      ELSE IF fused # {} THEN Scalar(R[Max(fused)], "heading_deg")
      ELSE QuaternionToEulerZyx(Orientation(R[FirstOf(R)])).yaw

TurnAt(R, k) ==
  GyroZ(R[k]) * (Stamp(R[k]) - Stamp(R[Max({i \in OfKind(R, "I") : i < k})]))
Since(R, anchor) == IF anchor \in FixesOf(R) THEN anchor ELSE FirstOf(R)
TurnsAfter(R, anchor) ==
  {k \in OfKind(R, "I") : k > Since(R, anchor) /\ k > FirstOf(R)}
Turns(R, anchor) == [k \in TurnsAfter(R, anchor) |-> TurnAt(R, k)]
Turned(R, anchor) == Total(Turns(R, anchor), TurnsAfter(R, anchor))

Expected(R, anchor) == Base(R, anchor) - Turned(R, anchor)

\* The anchor of the dead reckoner, and that of the last sample shown.
AnchorOf(R) == IF FixesOf(R) = {} THEN FirstOf(R) ELSE Min(FixesOf(R))
ShownAnchor(R) ==
  IF \E i \in FixesOf(R) : i < LastOf(R) THEN Min(FixesOf(R)) ELSE FirstOf(R)

\* Records read so far, and the same with one more.
IsTrack(R, n) == n \in Nat /\ DOMAIN R = 1 .. n /\ \A i \in 1 .. n : R[i] \in Records
OneMore(Q, R, n, r) ==
  /\ IsTrack(R, n) /\ IsTrack(Q, n + 1) /\ r \in Records
  /\ Q[n + 1] = r /\ \A i \in 1 .. n : Q[i] = R[i]

LEMMA MinOf ==
  ASSUME NEW n \in Nat, NEW S \in SUBSET (1 .. n), S # {}
  PROVE  Min(S) \in S /\ \A x \in S : Min(S) <= x
<1>1. PICK m \in S : \A x \in S : m <= x
  <2>1. S \subseteq Nat
    OBVIOUS
  <2> QED BY <2>1, LeastNat
<1>2. Min(S) = m
  BY <1>1, LeastIsMin
<1> QED
  BY <1>1, <1>2

LEMMA MaxOf ==
  ASSUME NEW n \in Nat, NEW S \in SUBSET (1 .. n), S # {}
  PROVE  Max(S) \in S /\ \A x \in S : x <= Max(S)
<1> DEFINE T == {i \in Nat : \A x \in S : x <= i}
<1>1. n \in T /\ T \subseteq Nat
  OBVIOUS
<1>2. PICK m \in T : \A i \in T : m <= i
  BY <1>1, LeastNat
<1>3. PICK y \in S : TRUE
  OBVIOUS
<1>4. m \in S
  <2> SUFFICES ASSUME m \notin S PROVE FALSE
    OBVIOUS
  <2>1. m > 0 /\ m - 1 \in Nat
    BY <1>2, <1>3
  <2>2. \A x \in S : x <= m - 1
    BY <1>2, <2>1
  <2> QED BY <1>2, <2>1, <2>2
<1>5. Max(S) = m
  BY <1>2, <1>4, GreatestIsMax
<1> QED
  BY <1>2, <1>4, <1>5

\* What a record of each type adds to the sets.
LEMMA KindsGrow ==
  ASSUME NEW Q, NEW R, NEW n, NEW r, OneMore(Q, R, n, r)
  PROVE  /\ \A type : OfKind(Q, type) = IF r.type = type THEN OfKind(R, type) \cup {n + 1}
                                        ELSE OfKind(R, type)
         /\ FixesOf(Q) = IF r.type = "G" /\ Scalar(r, "valid") = 1
                           THEN FixesOf(R) \cup {n + 1} ELSE FixesOf(R)
         /\ \A type : OfKind(R, type) \subseteq 1 .. n
         /\ FixesOf(R) \subseteq OfKind(R, "G")
         /\ OfKind(R, "G") \cap OfKind(R, "I") = {} /\ OfKind(R, "F") \cap OfKind(R, "I") = {}
<1> USE DEF OneMore, IsTrack
<1>1. \A type : OfKind(Q, type) = IF r.type = type THEN OfKind(R, type) \cup {n + 1}
                                        ELSE OfKind(R, type)
  BY DEF OfKind
<1>2. \A type : OfKind(R, type) \subseteq 1 .. n
  BY DEF OfKind
<1>3. FixesOf(Q) = IF r.type = "G" /\ Scalar(r, "valid") = 1
                           THEN FixesOf(R) \cup {n + 1} ELSE FixesOf(R)
  BY <1>1, <1>2 DEF FixesOf
<1> QED
  BY <1>1, <1>2, <1>3 DEF FixesOf, OfKind

\* An anchor: a fix, or the first I line.
Anchors(R, anchor) ==
  anchor \in FixesOf(R) \/ (OfKind(R, "I") # {} /\ anchor = FirstOf(R))

LEMMA TrackSets ==
  ASSUME NEW R, NEW n, IsTrack(R, n)
  PROVE  /\ \A type : OfKind(R, type) \subseteq 1 .. n
         /\ \A i \in OfKind(R, "I") : ImuFacts(R[i])
         /\ \A i \in OfKind(R, "G") : GnssFacts(R[i])
         /\ \A i \in OfKind(R, "F") : FusionFacts(R[i])
         /\ FixesOf(R) \subseteq OfKind(R, "G")
         /\ OfKind(R, "I") # {} =>
              /\ FirstOf(R) \in OfKind(R, "I") /\ \A i \in OfKind(R, "I") : FirstOf(R) <= i
              /\ LastOf(R) \in OfKind(R, "I") /\ \A i \in OfKind(R, "I") : i <= LastOf(R)
         /\ FixesOf(R) # {} =>
              Min(FixesOf(R)) \in FixesOf(R) /\ \A i \in FixesOf(R) : Min(FixesOf(R)) <= i
<1> USE DEF IsTrack
<1>1. \A type : OfKind(R, type) \subseteq 1 .. n
  BY DEF OfKind
<1>2. /\ \A i \in OfKind(R, "I") : ImuFacts(R[i])
      /\ \A i \in OfKind(R, "G") : GnssFacts(R[i])
      /\ \A i \in OfKind(R, "F") : FusionFacts(R[i])
  BY RecordsAreRead DEF RecordFacts, PlainRecord, FusionFacts, ImuFacts, GnssFacts, OfKind
<1>3. FixesOf(R) \subseteq OfKind(R, "G")
  BY DEF FixesOf
<1>4. FixesOf(R) \subseteq 1 .. n
  BY <1>1, <1>3
<1> QED
  BY <1>1, <1>2, <1>3, <1>4, MinOf, MaxOf DEF FirstOf, LastOf

\* The I line before another.
LEMMA LineBefore ==
  ASSUME NEW R, NEW n, IsTrack(R, n), NEW k \in OfKind(R, "I"), k > FirstOf(R)
  PROVE  /\ Max({i \in OfKind(R, "I") : i < k}) \in OfKind(R, "I")
         /\ Max({i \in OfKind(R, "I") : i < k}) < k
         /\ TurnAt(R, k) \in Int
<1> DEFINE S == {i \in OfKind(R, "I") : i < k}
<1>1. FirstOf(R) \in S /\ S \subseteq 1 .. n /\ n \in Nat
  BY TrackSets DEF IsTrack
<1>2. Max(S) \in S
  BY <1>1, MaxOf
<1>3. ImuFacts(R[k]) /\ ImuFacts(R[Max(S)])
  BY <1>2, TrackSets
<1>4. TurnAt(R, k) \in Int
  <2> DEFINE a == Stamp(R[k])  b == Stamp(R[Max(S)])  g == GyroZ(R[k])
  <2>1. a \in Int /\ b \in Int /\ g \in {0, 90}
    BY <1>3 DEF ImuFacts
  <2>2. TurnAt(R, k) = g * (a - b)
    BY DEF TurnAt
  <2> HIDE DEF a, b, g
  <2> QED BY <2>1, <2>2
<1> QED
  BY <1>2, <1>4

LEMMA ExpectedTypes ==
  ASSUME NEW R, NEW n, IsTrack(R, n), NEW anchor, Anchors(R, anchor)
  PROVE  /\ Summable(Turns(R, anchor), TurnsAfter(R, anchor))
         /\ TurnsAfter(R, anchor) \subseteq 1 .. n
         /\ Base(R, anchor) \in Int /\ Turned(R, anchor) \in Int
         /\ Since(R, anchor) = anchor /\ anchor \in 1 .. n
<1>1. n \in Nat
  BY DEF IsTrack
<1>2. TurnsAfter(R, anchor) \subseteq 1 .. n
  BY TrackSets DEF TurnsAfter
<1>3. IsFiniteSet(1 .. n)
  <2>1. 1 \in Int /\ n \in Int
    BY <1>1
  <2> QED BY <2>1, FS_Interval, Zenon
<1>4. IsFiniteSet(TurnsAfter(R, anchor))
  BY <1>2, <1>3, FS_Subset, Zenon
<1>5. Turns(R, anchor) \in [TurnsAfter(R, anchor) -> Int]
  <2>1. \A k \in TurnsAfter(R, anchor) : TurnAt(R, k) \in Int
    BY LineBefore DEF TurnsAfter
  <2> QED BY <2>1 DEF Turns
<1>6. Base(R, anchor) \in Int
  <2> DEFINE fused == {i \in OfKind(R, "F") : i < FirstOf(R)}
  <2>1. CASE anchor \in FixesOf(R)
    <3>1. GnssFacts(R[anchor])
      BY <2>1, TrackSets
    <3> QED BY <2>1, <3>1 DEF Base, GnssFacts
  <2>2. CASE anchor \notin FixesOf(R) /\ fused # {}
    <3>1. Max(fused) \in fused
      <4>1. fused \subseteq 1 .. n
        BY TrackSets
      <4> QED BY <1>1, <2>2, <4>1, MaxOf
    <3>2. FusionFacts(R[Max(fused)])
      BY <3>1, TrackSets
    <3>3. Base(R, anchor) = Scalar(R[Max(fused)], "heading_deg")
      BY <2>2 DEF Base
    <3> HIDE DEF fused
    <3> QED BY <3>2, <3>3 DEF FusionFacts
  <2>3. CASE anchor \notin FixesOf(R) /\ fused = {}
    <3>1. OfKind(R, "I") # {}
      BY <2>3 DEF Anchors
    <3>2. ImuFacts(R[FirstOf(R)])
      BY <3>1, TrackSets
    <3>3. Base(R, anchor) = QuaternionToEulerZyx(Orientation(R[FirstOf(R)])).yaw
      BY <2>3 DEF Base
    <3> QED BY <3>2, <3>3 DEF ImuFacts
  <2> QED BY <2>1, <2>2, <2>3
<1>7. Since(R, anchor) = anchor /\ anchor \in 1 .. n
  BY TrackSets DEF Since, Anchors
<1>8. Summable(Turns(R, anchor), TurnsAfter(R, anchor))
  BY <1>4, <1>5 DEF Summable
<1>9. Turned(R, anchor) \in Int
  BY <1>8, TotalType DEF Turned
<1> QED
  BY <1>2, <1>6, <1>7, <1>8, <1>9

\* One more record that is no I line changes neither base nor turn.
LEMMA ExpectedStays ==
  ASSUME NEW Q, NEW R, NEW n, NEW r, OneMore(Q, R, n, r), r.type # "I",
         NEW anchor, Anchors(R, anchor)
  PROVE  Anchors(Q, anchor) /\ Expected(Q, anchor) = Expected(R, anchor)
<1>1. IsTrack(R, n) /\ IsTrack(Q, n + 1) /\ n \in Nat
  BY DEF OneMore, IsTrack
<1>2. OfKind(Q, "I") = OfKind(R, "I") /\ FirstOf(Q) = FirstOf(R)
  BY KindsGrow DEF FirstOf
<1>3. anchor \in 1 .. n
  BY <1>1, ExpectedTypes
<1>4. anchor \in FixesOf(Q) <=> anchor \in FixesOf(R)
  BY <1>1, <1>3, KindsGrow
<1>5. Anchors(Q, anchor)
  BY <1>2, <1>4 DEF Anchors
<1>6. \A i \in 1 .. n : Q[i] = R[i]
  BY DEF OneMore
<1>7. TurnsAfter(Q, anchor) = TurnsAfter(R, anchor)
  BY <1>2, <1>4 DEF TurnsAfter, Since
<1>8. \A k \in TurnsAfter(R, anchor) : TurnAt(Q, k) = TurnAt(R, k)
  <2> SUFFICES ASSUME NEW k \in TurnsAfter(R, anchor) PROVE TurnAt(Q, k) = TurnAt(R, k)
    OBVIOUS
  <2> DEFINE before == Max({i \in OfKind(R, "I") : i < k})
  <2>1. k \in OfKind(R, "I") /\ k > FirstOf(R)
    BY DEF TurnsAfter
  <2>2. before \in OfKind(R, "I")
    BY <1>1, <2>1, LineBefore
  <2>3. k \in 1 .. n /\ before \in 1 .. n
    BY <1>1, <2>1, <2>2, TrackSets
  <2>4. Q[k] = R[k] /\ Q[before] = R[before]
    BY <1>6, <2>3
  <2> QED BY <1>2, <2>4 DEF TurnAt
<1>9. Turned(Q, anchor) = Turned(R, anchor)
  <2>1. Turns(Q, anchor) = Turns(R, anchor)
    BY <1>7, <1>8 DEF Turns
  <2> QED BY <1>7, <2>1 DEF Turned
<1>10. Base(Q, anchor) = Base(R, anchor)
  <2>1. CASE anchor \in FixesOf(R)
    BY <1>3, <1>4, <1>6, <2>1 DEF Base
  <2>2. CASE anchor \notin FixesOf(R)
    <3> DEFINE fused == {i \in OfKind(R, "F") : i < FirstOf(R)}
    <3>1. OfKind(R, "I") # {} /\ FirstOf(R) \in 1 .. n
      BY <1>1, <2>2, TrackSets DEF Anchors
    <3>2. {i \in OfKind(Q, "F") : i < FirstOf(Q)} = fused
      BY <1>1, <1>2, <3>1, KindsGrow
    <3>3. fused # {} => Max(fused) \in 1 .. n
      <4>1. fused \subseteq 1 .. n
        BY <1>1, TrackSets
      <4> QED BY <1>1, <4>1, MaxOf
    <3>4. Q[FirstOf(Q)] = R[FirstOf(R)] /\ (fused # {} => Q[Max(fused)] = R[Max(fused)])
      BY <1>2, <1>6, <3>1, <3>3
    <3> HIDE DEF fused
    <3> QED BY <1>4, <2>2, <3>2, <3>4 DEF Base, fused
  <2> QED BY <2>1, <2>2
<1> QED
  BY <1>5, <1>9, <1>10 DEF Expected

\* A later I line turns it.
LEMMA ExpectedTurns ==
  ASSUME NEW Q, NEW R, NEW n, NEW r, OneMore(Q, R, n, r), r.type = "I",
         OfKind(R, "I") # {}, NEW anchor, Anchors(R, anchor)
  PROVE  /\ Anchors(Q, anchor)
         /\ Expected(Q, anchor) =
              Expected(R, anchor) - GyroZ(r) * (Stamp(r) - Stamp(R[LastOf(R)]))
<1> DEFINE I == OfKind(R, "I")
           T == TurnsAfter(R, anchor)
           turn == GyroZ(r) * (Stamp(r) - Stamp(R[LastOf(R)]))
<1>1. IsTrack(R, n) /\ IsTrack(Q, n + 1) /\ n \in Nat
  BY DEF OneMore, IsTrack
<1>2. /\ FirstOf(R) \in I /\ \A i \in I : FirstOf(R) <= i
      /\ LastOf(R) \in I /\ \A i \in I : i <= LastOf(R)
      /\ I \subseteq 1 .. n
  BY <1>1, TrackSets
<1>3. OfKind(Q, "I") = I \cup {n + 1}
  BY KindsGrow
<1>4. FirstOf(Q) = FirstOf(R)
  <2>1. \A i \in I \cup {n + 1} : FirstOf(R) <= i
    BY <1>1, <1>2
  <2>2. I \cup {n + 1} \in SUBSET Int
    BY <1>1, <1>2
  <2>3. Min(I \cup {n + 1}) = FirstOf(R)
    BY <1>2, <2>1, <2>2, LeastIsMin
  <2> QED BY <1>3, <2>3 DEF FirstOf
<1>5. FixesOf(Q) = FixesOf(R) /\ OfKind(Q, "F") = OfKind(R, "F")
  BY KindsGrow
<1>6. anchor \in 1 .. n /\ Since(R, anchor) = anchor /\ Since(Q, anchor) = anchor
      /\ Anchors(Q, anchor)
  <2>1. Anchors(Q, anchor)
    BY <1>3, <1>4, <1>5 DEF Anchors
  <2> QED BY <1>1, <2>1, ExpectedTypes
<1>7. \A i \in 1 .. n : Q[i] = R[i]
  BY DEF OneMore
<1>8. TurnsAfter(Q, anchor) = T \cup {n + 1} /\ n + 1 \notin T /\ T \subseteq 1 .. n
  BY <1>1, <1>2, <1>3, <1>4, <1>6 DEF TurnsAfter
<1>9. \A k \in T : TurnAt(Q, k) = TurnAt(R, k)
  <2> SUFFICES ASSUME NEW k \in T PROVE TurnAt(Q, k) = TurnAt(R, k)
    OBVIOUS
  <2> DEFINE before == Max({i \in I : i < k})
  <2>1. k \in I /\ k > FirstOf(R)
    BY DEF TurnsAfter
  <2>2. before \in I
    BY <1>1, <2>1, LineBefore
  <2>3. k \in 1 .. n /\ before \in 1 .. n
    BY <1>2, <2>1, <2>2
  <2>4. Q[k] = R[k] /\ Q[before] = R[before]
    BY <1>7, <2>3
  <2>5. {i \in OfKind(Q, "I") : i < k} = {i \in I : i < k}
    BY <1>1, <1>3, <2>3
  <2> QED BY <2>4, <2>5 DEF TurnAt
<1>10. TurnAt(Q, n + 1) = turn
  <2>1. {i \in OfKind(Q, "I") : i < n + 1} = I
    BY <1>1, <1>2, <1>3
  <2>2. Q[n + 1] = r /\ Q[LastOf(R)] = R[LastOf(R)]
    BY <1>2, <1>7 DEF OneMore
  <2> QED BY <2>1, <2>2 DEF TurnAt, LastOf
<1>11. Turned(Q, anchor) = turn + Turned(R, anchor)
  <2>1. /\ Summable(Turns(Q, anchor), T \cup {n + 1})
        /\ Summable(Turns(R, anchor), T)
    BY <1>1, <1>6, <1>8, ExpectedTypes
  <2>2. Turns(Q, anchor)[n + 1] = turn /\ \A k \in T : Turns(R, anchor)[k] = Turns(Q, anchor)[k]
    BY <1>8, <1>9, <1>10 DEF Turns
  <2>3. (T \cup {n + 1}) \ {n + 1} = T
    BY <1>8
  <2> HIDE DEF turn, T
  <2>4. Total(Turns(Q, anchor), T \cup {n + 1}) = Turns(Q, anchor)[n + 1] + Total(Turns(R, anchor), T)
    BY <2>1, <2>2, <2>3, TotalSplits
  <2> QED BY <1>8, <2>2, <2>4 DEF Turned, T
<1>12. Base(Q, anchor) = Base(R, anchor)
  <2>1. CASE anchor \in FixesOf(R)
    BY <1>5, <1>6, <1>7, <2>1 DEF Base
  <2>2. CASE anchor \notin FixesOf(R)
    <3> DEFINE fused == {i \in OfKind(R, "F") : i < FirstOf(R)}
    <3>1. fused # {} => Max(fused) \in 1 .. n
      <4>1. fused \subseteq 1 .. n
        BY <1>1, TrackSets
      <4> QED BY <1>1, <4>1, MaxOf
    <3>2. Q[FirstOf(Q)] = R[FirstOf(R)] /\ (fused # {} => Q[Max(fused)] = R[Max(fused)])
      BY <1>2, <1>4, <1>7, <3>1
    <3>3. {i \in OfKind(Q, "F") : i < FirstOf(Q)} = fused
      BY <1>4, <1>5
    <3> HIDE DEF fused
    <3> QED BY <1>5, <2>2, <3>2, <3>3 DEF Base, fused
  <2> QED BY <2>1, <2>2
<1>13. Base(R, anchor) \in Int /\ Turned(R, anchor) \in Int /\ turn \in Int
  <2>1. TurnAt(Q, n + 1) \in Int
    <3>1. n + 1 > FirstOf(Q)
      BY <1>1, <1>2, <1>4
    <3> QED BY <1>1, <1>3, <3>1, LineBefore
  <2> QED BY <1>1, <1>10, <2>1, ExpectedTypes
<1> HIDE DEF turn
<1>14. Expected(Q, anchor) = Expected(R, anchor) - turn
  BY <1>11, <1>12, <1>13 DEF Expected
<1> QED
  BY <1>6, <1>14 DEF turn

\* No turn is counted for the newest record alone, nor up to the first I line.
LEMMA NothingTurned ==
  ASSUME NEW R, NEW n, IsTrack(R, n), NEW anchor, Anchors(R, anchor),
         \A k \in OfKind(R, "I") : k <= anchor \/ k <= FirstOf(R)
  PROVE  Expected(R, anchor) = Base(R, anchor)
<1>1. /\ Summable(Turns(R, anchor), TurnsAfter(R, anchor)) /\ Base(R, anchor) \in Int
      /\ Since(R, anchor) = anchor /\ anchor \in 1 .. n
      /\ OfKind(R, "I") \subseteq 1 .. n
      /\ OfKind(R, "I") # {} => FirstOf(R) \in 1 .. n
  BY ExpectedTypes, TrackSets
<1>2. TurnsAfter(R, anchor) = {}
  BY <1>1 DEF TurnsAfter
<1>3. Turned(R, anchor) = 0
  BY <1>1, <1>2, TotalType DEF Turned
<1> QED
  BY <1>1, <1>3 DEF Expected

\* What the dead reckoner is once it has read R.
Reckoned(R, dr, drGnss) ==
  /\ dr.prev = IF OfKind(R, "I") = {} THEN NoTime ELSE Stamp(R[LastOf(R)])
  /\ drGnss = (FixesOf(R) # {})
  /\ dr.anchored = (FixesOf(R) # {} \/ OfKind(R, "I") # {})
  /\ dr.anchored => SameDirection(dr.heading, Expected(R, AnchorOf(R)))

\* The fused series ends with the last F line, the open one with the heading at
\* the last I line.
FusedShown(R, fused) ==
  /\ fused.t = <<>> <=> OfKind(R, "F") = {}
  /\ OfKind(R, "F") # {} => /\ fused.heading # <<>>
                            /\ Last(fused.heading) = Scalar(R[Max(OfKind(R, "F"))], "heading_deg")
OpenShown(R, open) ==
  /\ open.t = <<>> <=> OfKind(R, "I") = {}
  /\ OfKind(R, "I") # {} => /\ open.heading # <<>>
                            /\ SameDirection(Last(open.heading), Expected(R, ShownAnchor(R)))

LEMMA AnchorsAre ==
  ASSUME NEW R, NEW n, IsTrack(R, n)
  PROVE  /\ FixesOf(R) # {} \/ OfKind(R, "I") # {} => Anchors(R, AnchorOf(R))
         /\ OfKind(R, "I") # {} => Anchors(R, ShownAnchor(R))
BY TrackSets DEF Anchors, AnchorOf, ShownAnchor

LEMMA ExpectedInt ==
  ASSUME NEW R, NEW n, IsTrack(R, n), NEW anchor, Anchors(R, anchor)
  PROVE  Expected(R, anchor) \in Int
BY ExpectedTypes DEF Expected

\* The least fix stays the least.
LEMMA FixesGrow ==
  ASSUME NEW Q, NEW R, NEW n, NEW r, OneMore(Q, R, n, r), FixesOf(R) # {}
  PROVE  FixesOf(Q) # {} /\ Min(FixesOf(Q)) = Min(FixesOf(R))
<1>1. IsTrack(R, n) /\ n \in Nat /\ FixesOf(R) \subseteq 1 .. n
  BY TrackSets DEF OneMore, IsTrack
<1>2. FixesOf(Q) \in {FixesOf(R), FixesOf(R) \cup {n + 1}}
  BY KindsGrow
<1>3. Min(FixesOf(R)) \in FixesOf(R) /\ \A i \in FixesOf(R) : Min(FixesOf(R)) <= i
  BY <1>1, TrackSets
<1>4. Min(FixesOf(R)) \in FixesOf(Q) /\ \A i \in FixesOf(Q) : Min(FixesOf(R)) <= i
      /\ FixesOf(Q) \in SUBSET Int
  BY <1>1, <1>2, <1>3
<1> QED
  BY <1>4, LeastIsMin

\* A record that is neither an I line nor the first fix leaves it as it is.
LEMMA ReckonedStays ==
  ASSUME NEW Q, NEW R, NEW n, NEW r, OneMore(Q, R, n, r), r.type # "I",
         FixesOf(Q) # {} => FixesOf(R) # {}, NEW dr, NEW drGnss, Reckoned(R, dr, drGnss)
  PROVE  Reckoned(Q, dr, drGnss)
<1>1. IsTrack(R, n) /\ IsTrack(Q, n + 1) /\ n \in Nat
  BY DEF OneMore, IsTrack
<1>2. OfKind(Q, "I") = OfKind(R, "I") /\ LastOf(Q) = LastOf(R) /\ FirstOf(Q) = FirstOf(R)
  BY KindsGrow DEF FirstOf, LastOf
<1>3. FixesOf(Q) = {} <=> FixesOf(R) = {}
  BY KindsGrow
<1>4. AnchorOf(Q) = AnchorOf(R)
  BY <1>2, <1>3, FixesGrow DEF AnchorOf
<1>5. OfKind(R, "I") # {} => Q[LastOf(Q)] = R[LastOf(R)]
  BY <1>1, <1>2, TrackSets DEF OneMore
<1>6. FixesOf(R) # {} \/ OfKind(R, "I") # {} =>
        Expected(Q, AnchorOf(Q)) = Expected(R, AnchorOf(R))
  BY <1>1, <1>4, AnchorsAre, ExpectedStays
<1> QED
  BY <1>2, <1>3, <1>5, <1>6 DEF Reckoned

\* The first fix anchors it.
LEMMA ReckonedFix ==
  ASSUME NEW Q, NEW R, NEW n, NEW r, OneMore(Q, R, n, r), r.type = "G",
         Scalar(r, "valid") = 1, FixesOf(R) = {}, NEW dr \in Reckoners, Reckoned(R, dr, FALSE)
  PROVE  Reckoned(Q, Anchor(dr, Scalar(r, "heading_deg")), TRUE)
<1> DEFINE heading == Scalar(r, "heading_deg")
           anchored == Anchor(dr, heading)
<1>1. IsTrack(R, n) /\ IsTrack(Q, n + 1) /\ n \in Nat
  BY DEF OneMore, IsTrack
<1>2. OfKind(Q, "I") = OfKind(R, "I") /\ LastOf(Q) = LastOf(R) /\ FixesOf(Q) = {n + 1}
  BY KindsGrow DEF LastOf
<1>3. AnchorOf(Q) = n + 1
  <2>1. Min({n + 1}) = n + 1
    <3>1. n + 1 \in Int
      BY <1>1
    <3> QED BY <3>1, LeastIsMin
  <2> QED BY <1>2, <2>1 DEF AnchorOf
<1>4. OfKind(R, "I") # {} => Q[LastOf(Q)] = R[LastOf(R)]
  BY <1>1, <1>2, TrackSets DEF OneMore
<1>5. anchored.anchored /\ anchored.prev = dr.prev /\ anchored.heading = Wrap180(heading)
  BY DEF Anchor, Reckoners
<1>6. Expected(Q, n + 1) = heading
  <2>1. Anchors(Q, n + 1)
    BY <1>2 DEF Anchors
  <2>2. \A k \in OfKind(Q, "I") : k <= n + 1
    BY <1>1, TrackSets
  <2>3. Base(Q, n + 1) = heading
    BY <1>2 DEF Base, OneMore
  <2> QED BY <1>1, <2>1, <2>2, <2>3, NothingTurned
<1>7. heading \in Int
  BY <1>1, <1>2, TrackSets DEF GnssFacts, OneMore
<1>8. SameDirection(Wrap180(heading), heading)
  BY <1>7, WrapKeepsDirection
<1> HIDE DEF heading, anchored
<1> QED
  BY <1>2, <1>3, <1>4, <1>5, <1>6, <1>8 DEF Reckoned, anchored, heading

\* An I line steps it, anchored first when nothing did yet.
LEMMA ReckonedImu ==
  ASSUME NEW Q, NEW R, NEW n, NEW r, OneMore(Q, R, n, r), r.type = "I", NEW m \in Monitors,
         Reckoned(R, m.dr, m.drGnss), FusedShown(R, m.fused)
  PROVE  Reckoned(Q, Reckon(m, r), m.drGnss) /\ ShownAnchor(Q) = AnchorOf(Q)
<1> DEFINE dr == Reckon(m, r)
           I == OfKind(R, "I")
<1>1. IsTrack(R, n) /\ IsTrack(Q, n + 1) /\ n \in Nat
  BY DEF OneMore, IsTrack
<1>2. OfKind(Q, "I") = I \cup {n + 1} /\ FixesOf(Q) = FixesOf(R)
      /\ OfKind(Q, "F") = OfKind(R, "F") /\ I \subseteq 1 .. n /\ FixesOf(R) \subseteq 1 .. n
      /\ OfKind(R, "F") \subseteq 1 .. n
  BY KindsGrow
<1>3. LastOf(Q) = n + 1 /\ Q[n + 1] = r
  <2>1. n + 1 \in I \cup {n + 1} /\ I \cup {n + 1} \in SUBSET Int
        /\ \A i \in I \cup {n + 1} : i <= n + 1
    BY <1>1, <1>2
  <2> QED BY <1>2, <2>1, GreatestIsMax DEF LastOf, OneMore
<1>4. ImuFacts(r)
  BY <1>1, <1>2, <1>3, TrackSets
<1>5. Stamp(r) \in 1 .. MaxLines /\ GyroZ(r) \in {0, 90}
      /\ QuaternionToEulerZyx(Orientation(r)).yaw = 0
  BY <1>4 DEF ImuFacts
<1>6. m.dr \in Reckoners /\ m.dr.heading \in Int /\ m.dr.prev \in Int
      /\ m.dr.anchored \in BOOLEAN /\ m.drGnss \in BOOLEAN
  <2>1. m.dr \in Reckoners /\ m.drGnss \in BOOLEAN
    BY DEF Monitors
  <2> QED BY <2>1 DEF Reckoners, Quarters
<1>7. ShownAnchor(Q) = AnchorOf(Q)
  BY <1>1, <1>2, <1>3 DEF ShownAnchor, AnchorOf
<1>8. \A d, time, rate : d \in Reckoners =>
        /\ Step(d, time, rate).prev = time /\ Step(d, time, rate).anchored = d.anchored
        /\ Step(d, time, rate).heading = IF d.anchored /\ d.prev # NoTime
             THEN Wrap180(d.heading - rate * (time - d.prev)) ELSE d.heading
  BY DEF Step, Reckoners
<1>9. CASE I # {}
  <2>1. m.dr.anchored /\ dr = Step(m.dr, Stamp(r), GyroZ(r))
    BY <1>9 DEF Reckoned, Reckon
  <2>2. LastOf(R) \in I /\ ImuFacts(R[LastOf(R)])
    BY <1>1, <1>9, TrackSets
  <2>3. m.dr.prev = Stamp(R[LastOf(R)]) /\ m.dr.prev # NoTime
    BY <1>9, <2>2 DEF Reckoned, ImuFacts, NoTime
  <2> DEFINE turn == GyroZ(r) * (Stamp(r) - m.dr.prev)
  <2>4. turn \in Int
    <3>1. \A g \in {0, 90}, a, b \in Int : g * (a - b) \in Int
      OBVIOUS
    <3> QED BY <1>5, <1>6, <3>1
  <2>5. dr.heading = Wrap180(m.dr.heading - turn) /\ dr.prev = Stamp(r) /\ dr.anchored
    BY <1>6, <1>8, <2>1, <2>3
  <2>6. AnchorOf(Q) = AnchorOf(R)
    <3>1. CASE FixesOf(R) # {}
      BY <1>2, <3>1 DEF AnchorOf
    <3>2. CASE FixesOf(R) = {}
      <4>1. /\ FirstOf(R) \in I \cup {n + 1} /\ I \cup {n + 1} \in SUBSET Int
            /\ \A i \in I \cup {n + 1} : FirstOf(R) <= i
        BY <1>1, <1>2, <1>9, TrackSets
      <4>2. FirstOf(Q) = FirstOf(R)
        BY <1>2, <4>1, LeastIsMin DEF FirstOf
      <4> QED BY <1>2, <3>2, <4>2 DEF AnchorOf
    <3> QED BY <3>1, <3>2
  <2>7. Anchors(R, AnchorOf(R)) /\ Expected(R, AnchorOf(R)) \in Int
    BY <1>1, <1>9, AnchorsAre, ExpectedInt
  <2>8. Expected(Q, AnchorOf(Q)) = Expected(R, AnchorOf(R)) - turn
    BY <1>9, <2>3, <2>6, <2>7, ExpectedTurns
  <2>9. SameDirection(m.dr.heading, Expected(R, AnchorOf(R)))
    BY <2>1 DEF Reckoned
  <2> HIDE DEF turn, dr
  <2>10. m.dr.heading - turn \in Int
    BY <1>6, <2>4
  <2>11. dr.heading \in Int /\ SameDirection(dr.heading, m.dr.heading - turn)
    BY <2>5, <2>10, WrapKeepsDirection
  <2>12. SameDirection(dr.heading, Expected(R, AnchorOf(R)) - turn)
    BY <1>6, <2>4, <2>7, <2>9, <2>11, DirectionsTurn
  <2>13. Reckoned(Q, dr, m.drGnss)
    BY <1>2, <1>3, <2>5, <2>8, <2>12 DEF Reckoned
  <2> QED BY <1>7, <2>13 DEF dr
<1>10. CASE I = {}
  <2>1. FirstOf(Q) = n + 1 /\ m.dr.prev = NoTime
    <3>1. OfKind(Q, "I") = {n + 1} /\ n + 1 \in Int
      BY <1>1, <1>2, <1>10
    <3>2. Min({n + 1}) = n + 1
      BY <3>1, LeastIsMin
    <3> QED BY <1>10, <3>1, <3>2 DEF FirstOf, Reckoned
  <2>2. Expected(Q, AnchorOf(Q)) = Base(Q, AnchorOf(Q))
    <3>1. Anchors(Q, AnchorOf(Q))
      BY <1>1, <1>2, AnchorsAre
    <3>2. \A k \in OfKind(Q, "I") : k <= FirstOf(Q)
      BY <1>1, <1>2, <1>10, <2>1
    <3> QED BY <1>1, <3>1, <3>2, NothingTurned
  <2>3. CASE FixesOf(R) # {}
    <3>1. m.dr.anchored /\ dr = Step(m.dr, Stamp(r), GyroZ(r))
      BY <2>3 DEF Reckoned, Reckon
    <3>2. dr.heading = m.dr.heading /\ dr.prev = Stamp(r) /\ dr.anchored
      BY <1>6, <1>8, <2>1, <3>1
    <3>3. AnchorOf(Q) = AnchorOf(R) /\ AnchorOf(R) \in FixesOf(R)
      BY <1>1, <1>2, <2>3, TrackSets DEF AnchorOf
    <3>4. Expected(R, AnchorOf(R)) = Base(R, AnchorOf(R))
      <4>1. Anchors(R, AnchorOf(R))
        BY <3>3 DEF Anchors
      <4> QED BY <1>1, <1>10, <4>1, NothingTurned
    <3>5. Base(Q, AnchorOf(Q)) = Base(R, AnchorOf(R))
      BY <1>2, <3>3 DEF Base, OneMore
    <3>6. SameDirection(dr.heading, Expected(Q, AnchorOf(Q)))
      BY <2>2, <3>1, <3>2, <3>4, <3>5 DEF Reckoned
    <3> HIDE DEF dr
    <3>7. Reckoned(Q, dr, m.drGnss)
      BY <1>2, <1>3, <3>2, <3>6 DEF Reckoned
    <3> QED BY <1>7, <3>7 DEF dr
  <2>4. CASE FixesOf(R) = {}
    <3> DEFINE seed == IF m.fused.t # <<>> THEN Last(m.fused.heading)
                       ELSE QuaternionToEulerZyx(Orientation(r)).yaw
    <3>1. ~m.dr.anchored /\ ~m.drGnss
      BY <1>10, <2>4 DEF Reckoned
    <3>2. dr = Step(Anchor(m.dr, seed), Stamp(r), GyroZ(r))
      BY <3>1 DEF Reckon, ReckonReanchoring
    <3>3. AnchorOf(Q) = n + 1 /\ n + 1 \notin FixesOf(Q)
      BY <1>1, <1>2, <2>1, <2>4 DEF AnchorOf
    <3>4. Base(Q, n + 1) = seed
      <4>1. {i \in OfKind(Q, "F") : i < FirstOf(Q)} = OfKind(R, "F")
        BY <1>1, <1>2, <2>1
      <4>2. CASE OfKind(R, "F") = {}
        <5>1. seed = QuaternionToEulerZyx(Orientation(r)).yaw
          BY <4>2 DEF FusedShown
        <5>2. Base(Q, n + 1) = QuaternionToEulerZyx(Orientation(r)).yaw
          BY <1>3, <2>1, <3>3, <4>1, <4>2 DEF Base
        <5> QED BY <5>1, <5>2
      <4>3. CASE OfKind(R, "F") # {}
        <5>1. seed = Scalar(R[Max(OfKind(R, "F"))], "heading_deg")
          BY <4>3 DEF FusedShown
        <5>2. Max(OfKind(R, "F")) \in 1 .. n
          BY <1>1, <1>2, <4>3, MaxOf
        <5>3. Q[Max(OfKind(R, "F"))] = R[Max(OfKind(R, "F"))]
          BY <5>2 DEF OneMore
        <5>4. Base(Q, n + 1) = Scalar(Q[Max(OfKind(R, "F"))], "heading_deg")
          BY <3>3, <4>1, <4>3 DEF Base
        <5> QED BY <5>1, <5>3, <5>4
      <4> QED BY <4>2, <4>3
    <3> HIDE DEF seed
    <3>5. seed \in Int
      <4>1. Anchors(Q, n + 1)
        BY <1>2, <2>1 DEF Anchors
      <4> QED BY <1>1, <3>4, <4>1, ExpectedTypes
    <3>6. Wrap180(seed) \in Int /\ SameDirection(Wrap180(seed), seed)
      BY <3>5, WrapKeepsDirection
    <3>7. dr.heading = Wrap180(seed) /\ dr.prev = Stamp(r) /\ dr.anchored
      <4> DEFINE a == Anchor(m.dr, seed)
      <4>1. /\ a.anchored /\ a.heading = Wrap180(seed) /\ a.prev = m.dr.prev
            /\ DOMAIN a = {"anchored", "heading", "prev"}
        BY <1>6 DEF Anchor, Reckoners
      <4>2. dr = Step(a, Stamp(r), GyroZ(r))
        BY <3>2
      <4> HIDE DEF a, dr
      <4> QED BY <2>1, <4>1, <4>2 DEF Step
    <3> HIDE DEF dr
    <3>8. Reckoned(Q, dr, m.drGnss)
      <4>1. SameDirection(dr.heading, Expected(Q, AnchorOf(Q)))
        BY <2>2, <3>3, <3>4, <3>6, <3>7
      <4>2. m.drGnss = (FixesOf(Q) # {})
        BY <1>2 DEF Reckoned
      <4> QED BY <1>2, <1>3, <3>7, <4>1, <4>2 DEF Reckoned
    <3> QED BY <1>7, <3>8 DEF dr
  <2> QED BY <2>3, <2>4
<1> QED
  BY <1>9, <1>10

\* A record of another type leaves what is shown.
LEMMA ShownStays ==
  ASSUME NEW Q, NEW R, NEW n, NEW r, OneMore(Q, R, n, r), NEW fused, NEW open
  PROVE  /\ r.type # "F" /\ FusedShown(R, fused) => FusedShown(Q, fused)
         /\ r.type # "I" /\ OpenShown(R, open) => OpenShown(Q, open)
<1>1. IsTrack(R, n) /\ IsTrack(Q, n + 1) /\ n \in Nat
  BY DEF OneMore, IsTrack
<1>2. ASSUME r.type # "F", FusedShown(R, fused) PROVE FusedShown(Q, fused)
  <2>1. OfKind(Q, "F") = OfKind(R, "F") /\ OfKind(R, "F") \subseteq 1 .. n
    BY <1>2, KindsGrow
  <2>2. OfKind(R, "F") # {} => Q[Max(OfKind(Q, "F"))] = R[Max(OfKind(R, "F"))]
    BY <1>1, <2>1, MaxOf DEF OneMore
  <2> QED BY <1>2, <2>1, <2>2 DEF FusedShown
<1>3. ASSUME r.type # "I", OpenShown(R, open) PROVE OpenShown(Q, open)
  <2>1. OfKind(Q, "I") = OfKind(R, "I") /\ LastOf(Q) = LastOf(R) /\ FirstOf(Q) = FirstOf(R)
    BY <1>3, KindsGrow DEF LastOf, FirstOf
  <2>2. CASE OfKind(R, "I") # {}
    <3>1. LastOf(R) \in 1 .. n
      BY <1>1, <2>2, TrackSets
    <3>2. FixesOf(Q) \in {FixesOf(R), FixesOf(R) \cup {n + 1}}
      BY KindsGrow
    <3>3. (\E i \in FixesOf(Q) : i < LastOf(Q)) <=> (\E i \in FixesOf(R) : i < LastOf(R))
      BY <1>1, <2>1, <3>1, <3>2
    <3>4. FixesOf(R) # {} => Min(FixesOf(Q)) = Min(FixesOf(R))
      BY FixesGrow
    <3>5. ShownAnchor(Q) = ShownAnchor(R)
      BY <2>1, <3>3, <3>4 DEF ShownAnchor
    <3>6. Expected(Q, ShownAnchor(Q)) = Expected(R, ShownAnchor(R))
      BY <1>1, <1>3, <2>2, <3>5, AnchorsAre, ExpectedStays
    <3> QED BY <1>3, <2>1, <3>6 DEF OpenShown
  <2>3. CASE OfKind(R, "I") = {}
    BY <1>3, <2>1, <2>3 DEF OpenShown
  <2> QED BY <2>2, <2>3
<1> QED
  BY <1>2, <1>3

\* The records a reader at pc has applied to its dead reckoner.
Reading == {"pull", "parse", "lock", "heading", "rest"}
Ahead(pc) == IF pc \in {"parse", "lock"} THEN 1 ELSE 0
ReadBy(pc, lines) == [i \in 1 .. Len(lines) - Ahead(pc) |-> Parsed[lines[i]]]

\* What the reader, the lines it was handed and its MonitorState say of each other.
OpenOf(pc, record, lines, m) ==
  pc \in Reading =>
    /\ pc # "pull" => lines # <<>> /\ record = Parsed[lines[Len(lines)]]
    /\ Reckoned(ReadBy(pc, lines), m.dr, m.drGnss)
    /\ (pc = "heading" /\ record.type = "F") \/ FusedShown(ReadBy(pc, lines), m.fused)
    /\ (pc = "heading" /\ record.type = "I") \/ OpenShown(ReadBy(pc, lines), m.open)

OpenInv ==
  \A s \in Sessions : OpenOf(reader[s].pc, reader[s].record, handed[s], state[s])

LEMMA ReadTrack ==
  ASSUME NEW lines \in Seq(Lines), NEW pc, pc \in {"parse", "lock"} => lines # <<>>
  PROVE  IsTrack(ReadBy(pc, lines), Len(lines) - Ahead(pc))
<1>1. \A i \in 1 .. Len(lines) : lines[i] \in Lines
  OBVIOUS
<1>2. \A line \in Lines : Parsed[line] \in Records
  BY DEF Records
<1>3. Len(lines) - Ahead(pc) \in Nat /\ Len(lines) - Ahead(pc) <= Len(lines)
  BY DEF Ahead
<1> QED
  BY <1>1, <1>2, <1>3 DEF IsTrack, ReadBy

LEMMA ReadMore ==
  ASSUME NEW lines \in Seq(Lines), lines # <<>>, NEW pc \in {"parse", "lock"},
         NEW then \in {"pull", "heading", "rest"}
  PROVE  OneMore(ReadBy(then, lines), ReadBy(pc, lines), Len(lines) - 1,
                 Parsed[lines[Len(lines)]])
<1>1. Ahead(pc) = 1 /\ Ahead(then) = 0 /\ Len(lines) \in Nat \ {0}
  BY DEF Ahead
<1>2. /\ IsTrack(ReadBy(pc, lines), Len(lines) - 1)
      /\ IsTrack(ReadBy(then, lines), Len(lines) - 0)
  BY <1>1, ReadTrack
<1>3. \A i \in 1 .. Len(lines) : ReadBy(then, lines)[i] = Parsed[lines[i]]
  BY <1>1 DEF ReadBy
<1>4. \A i \in 1 .. Len(lines) - 1 : ReadBy(pc, lines)[i] = Parsed[lines[i]]
  BY <1>1 DEF ReadBy
<1>5. Parsed[lines[Len(lines)]] \in Records
  BY <1>1, <1>2, <1>3 DEF IsTrack
<1> QED
  BY <1>1, <1>2, <1>3, <1>4, <1>5 DEF OneMore

LEMMA OpenSameData ==
  ASSUME NEW pc, NEW record, NEW lines, NEW m, NEW k, OpenOf(pc, record, lines, m),
         k.fused = m.fused, k.open = m.open, k.dr = m.dr, k.drGnss = m.drGnss
  PROVE  OpenOf(pc, record, lines, k)
BY DEF OpenOf

\* Nothing was read at the start of a session.
LEMMA OpenFresh ==
  ASSUME NEW record PROVE OpenOf("pull", record, <<>>, FreshMonitor)
<1> DEFINE R == ReadBy("pull", <<>>)
<1>1. \A type : OfKind(R, type) = {}
  BY DEF OfKind, ReadBy, Ahead
<1>2. FixesOf(R) = {}
  BY <1>1 DEF FixesOf
<1> HIDE DEF R
<1>3. Reckoned(R, FreshReckoner, FALSE)
  BY <1>1, <1>2 DEF Reckoned, FreshReckoner
<1>4. FusedShown(R, EmptySeries) /\ OpenShown(R, EmptySeries)
  BY <1>1, <1>2 DEF FusedShown, OpenShown, EmptySeries
<1>5. FreshMonitor.dr = FreshReckoner /\ FreshMonitor.drGnss = FALSE
      /\ FreshMonitor.fused = EmptySeries /\ FreshMonitor.open = EmptySeries
  BY DEF FreshMonitor
<1> QED
  BY <1>3, <1>4, <1>5 DEF OpenOf, R

LEMMA OpenInit == LiveInit => OpenInv
BY DEF LiveInit, OpenInv, OpenOf, NoRecordHeld, Reading

\* The main thread resets a state only with its reader at an end.
LEMMA OpenMain ==
  ASSUME LiveInv, OpenInv, MainStep PROVE OpenInv'
<1> USE DEF LiveInv
<1> SUFFICES ASSUME NEW s \in Sessions
             PROVE  OpenOf(reader[s].pc, reader[s].record, handed[s], state[s])'
  BY DEF OpenInv
<1>0. OpenOf(reader[s].pc, reader[s].record, handed[s], state[s])
  BY DEF OpenInv
<1>1. ASSUME Exit PROVE OpenOf(reader[s].pc, reader[s].record, handed[s], state[s])'
  <2>1. reader'[s].pc = "none"
    BY <1>1 DEF Exit, NoRecordHeld
  <2> QED BY <2>1 DEF OpenOf, Reading
<1>2. CASE OpenSession
  <2>1. UNCHANGED <<handed, state>> /\ reader' = [reader EXCEPT ![session + 1].pc = "pull"]
        /\ session \in Nat
    BY <1>2 DEF OpenSession, TypeInv
  <2>2. CASE s = session + 1
    <3>1. reader'[s].pc = "pull" /\ handed'[s] = <<>> /\ state'[s] = FreshMonitor
      BY <2>1, <2>2 DEF TypeInv, Readers, FreshInv
    <3> QED BY <3>1, OpenFresh
  <2>3. CASE s # session + 1
    <3>1. reader'[s] = reader[s] /\ handed'[s] = handed[s] /\ state'[s] = state[s]
      BY <2>1, <2>3 DEF TypeInv, Readers
    <3> QED BY <1>0, <3>1
  <2> QED BY <2>2, <2>3
<1>3. CASE NoBoardFound \/ Quit \/ AlignAborts
  BY <1>1, <1>3 DEF NoBoardFound, Quit, AlignAborts
<1>4. CASE CloseWindow \/ CloseSource
  BY <1>0, <1>4 DEF CloseWindow, CloseSource, sourceVars
<1>5. CASE Join
  <2>1. CASE ~menu
    BY <1>1, <1>5, <2>1 DEF Join
  <2>2. CASE menu
    <3>1. UNCHANGED <<reader, handed>>
          /\ state' = IF reader[session].pc \in {"done", "failed"}
                        THEN [state EXCEPT ![session] = FreshMonitor] ELSE state
      BY <1>5, <2>2 DEF Join
    <3>2. reader'[s].pc \in Reading => state'[s] = state[s]
      BY <3>1 DEF TypeInv, Reading
    <3> QED BY <1>0, <3>1, <3>2 DEF OpenOf
  <2> QED BY <2>1, <2>2
<1> QED
  BY <1>2, <1>3, <1>4, <1>5 DEF MainStep

LEMMA OpenGui ==
  ASSUME LiveInv, OpenInv, GuiStep PROVE OpenInv'
<1> USE DEF LiveInv
<1> SUFFICES ASSUME NEW s \in Sessions
             PROVE  OpenOf(reader[s].pc, reader[s].record, handed[s], state[s])'
  BY DEF OpenInv
<1>1. OpenOf(reader[s].pc, reader[s].record, handed[s], state[s])
  BY DEF OpenInv
<1>2. UNCHANGED <<reader, handed>> /\ SameData(state'[s], state[s])
  BY GuiFrame
<1>3. state'[s].drGnss = state[s].drGnss
  <2>1. state' = state \/ state' = [state EXCEPT ![session].error = @ \/ HalfAppended]
    BY DEF GuiStep, FirstPaint, SnapshotBegin, SnapshotFused, SnapshotOpen, Paint, DrawTriad,
           DrawHeading, ReadFix, DrawArrow, AlignTitle
  <2>2. state'[s] = state[s] \/ state'[s] = [state[s] EXCEPT !.error = state[s].error \/ HalfAppended]
    BY <2>1 DEF TypeInv
  <2>3. state[s] \in Monitors
    BY DEF TypeInv
  <2> QED BY <2>2, <2>3 DEF Monitors
<1> QED
  BY <1>1, <1>2, <1>3, OpenSameData DEF SameData

\* A push leaves the dead reckoner alone.
LEMMA PushKeepsReckoner ==
  ASSUME NEW m \in Monitors, NEW series \in Tracks, NEW column, NEW value
  PROVE  LET n == PushColumn(m, series, column, value)
         IN  n.dr = m.dr /\ n.drGnss = m.drGnss
BY DEF PushColumn, Monitors, Tracks

\* The newest record is the last of its type.
LEMMA NewestRead ==
  ASSUME NEW Q, NEW n, IsTrack(Q, n), n > 0
  PROVE  /\ Q[n].type = "F" => OfKind(Q, "F") # {} /\ Max(OfKind(Q, "F")) = n
         /\ Q[n].type = "I" => OfKind(Q, "I") # {} /\ ShownAnchor(Q) = AnchorOf(Q)
                               /\ Anchors(Q, AnchorOf(Q))
<1>1. n \in Nat /\ n \in 1 .. n
  BY DEF IsTrack
<1>2. \A type : OfKind(Q, type) \subseteq 1 .. n /\ OfKind(Q, type) \in SUBSET Int
      /\ \A i \in OfKind(Q, type) : i <= n
  BY <1>1, TrackSets
<1>3. \A type : Q[n].type = type => n \in OfKind(Q, type)
  BY <1>1 DEF OfKind, IsTrack
<1>4. \A type : Q[n].type = type => Max(OfKind(Q, type)) = n
  BY <1>2, <1>3, GreatestIsMax
<1>5. ASSUME Q[n].type = "I"
      PROVE  ShownAnchor(Q) = AnchorOf(Q) /\ Anchors(Q, AnchorOf(Q))
  <2>1. LastOf(Q) = n /\ OfKind(Q, "I") # {}
    BY <1>3, <1>4, <1>5 DEF LastOf
  <2>2. FixesOf(Q) \subseteq OfKind(Q, "G") /\ n \notin OfKind(Q, "G")
    BY <1>5, TrackSets DEF OfKind
  <2>3. \A i \in FixesOf(Q) : i < LastOf(Q)
    BY <1>1, <1>2, <2>1, <2>2
  <2> QED BY <2>1, <2>3, AnchorsAre DEF ShownAnchor, AnchorOf
<1> QED
  BY <1>3, <1>4, <1>5

\* A record applied at once: it is none the monitor shows.
LEMMA OpenApplied ==
  ASSUME NEW lines \in Seq(Lines), NEW m \in Monitors, NEW record \in Records,
         record.type \notin {"F", "I"}, OpenOf("lock", record, lines, m), NEW other
  PROVE  OpenOf("pull", other, lines, Update(m, record))
<1> DEFINE R == ReadBy("lock", lines)
           Q == ReadBy("pull", lines)
           n == Len(lines) - 1
           k == Update(m, record)
<1>1. /\ lines # <<>> /\ record = Parsed[lines[Len(lines)]]
      /\ Reckoned(R, m.dr, m.drGnss) /\ FusedShown(R, m.fused) /\ OpenShown(R, m.open)
  BY DEF OpenOf, Reading
<1>2. OneMore(Q, R, n, record)
  BY <1>1, ReadMore
<1>3. k.fused = m.fused /\ k.open = m.open
  BY PlainUpdate
<1> HIDE DEF R, Q
<1>4. FusedShown(Q, m.fused) /\ OpenShown(Q, m.open)
  BY <1>1, <1>2, ShownStays
<1>5. m.dr \in Reckoners /\ m.drGnss \in BOOLEAN
  BY DEF Monitors
<1>6. Reckoned(Q, k.dr, k.drGnss)
  <2> DEFINE fix == record.type = "G" /\ Scalar(record, "valid") = 1
             heading == Scalar(record, "heading_deg")
  <2>1. m.drGnss = (FixesOf(R) # {})
    BY <1>1 DEF Reckoned
  <2>2. FixesOf(Q) # {} => FixesOf(R) # {} \/ fix
    BY <1>2, KindsGrow
  <2>3. CASE fix /\ ~m.drGnss
    <3>1. k.dr = Anchor(m.dr, heading) /\ k.drGnss = TRUE
      BY <2>3 DEF Update, UpdateGnss, Monitors
    <3>2. FixesOf(R) = {} /\ Reckoned(R, m.dr, FALSE)
      BY <1>1, <2>1, <2>3
    <3>3. Reckoned(Q, Anchor(m.dr, heading), TRUE)
      BY <1>2, <1>5, <2>3, <3>2, ReckonedFix
    <3> QED BY <3>1, <3>3
  <2>4. CASE ~(fix /\ ~m.drGnss)
    <3>1. k.dr = m.dr /\ k.drGnss = m.drGnss
      <4>1. CASE record.type = "G"
        <5>1. k.dr = m.dr /\ k.drGnss = (m.drGnss \/ FALSE)
          BY <2>4, <4>1 DEF Update, UpdateGnss, Monitors
        <5> QED BY <1>5, <5>1
      <4>2. CASE record.type # "G"
        <5>1. k = m \/ k = [m EXCEPT !.diag = TRUE]
          BY <4>2 DEF Update
        <5> QED BY <5>1 DEF Monitors
      <4> QED BY <4>1, <4>2
    <3>2. FixesOf(Q) # {} => FixesOf(R) # {}
      BY <2>1, <2>2, <2>4
    <3>3. Reckoned(Q, m.dr, m.drGnss)
      BY <1>1, <1>2, <3>2, ReckonedStays
    <3> QED BY <3>1, <3>3
  <2> QED BY <2>3, <2>4
<1> HIDE DEF k
<1> QED
  BY <1>3, <1>4, <1>6 DEF OpenOf, Q, k

\* A sample's time: the dead reckoner has read the record, its series has not.
LEMMA OpenTimed ==
  ASSUME NEW lines \in Seq(Lines), NEW m \in Monitors, NEW record, record.type \in {"F", "I"},
         OpenOf("lock", record, lines, m), NEW k,
         k.dr = IF record.type = "I" THEN Reckon(m, record) ELSE m.dr, k.drGnss = m.drGnss,
         record.type # "F" => k.fused = m.fused, record.type # "I" => k.open = m.open
  PROVE  OpenOf("heading", record, lines, k)
<1> DEFINE R == ReadBy("lock", lines)
           Q == ReadBy("heading", lines)
           n == Len(lines) - 1
<1>1. /\ lines # <<>> /\ record = Parsed[lines[Len(lines)]]
      /\ Reckoned(R, m.dr, m.drGnss) /\ FusedShown(R, m.fused) /\ OpenShown(R, m.open)
  BY DEF OpenOf, Reading
<1>2. OneMore(Q, R, n, record)
  BY <1>1, ReadMore
<1> HIDE DEF R, Q, n
<1>3. /\ record.type # "F" => FusedShown(Q, m.fused)
      /\ record.type # "I" => OpenShown(Q, m.open)
  BY <1>1, <1>2, ShownStays
<1>4. Reckoned(Q, k.dr, k.drGnss)
  <2>1. CASE record.type = "I"
    BY <1>1, <1>2, <2>1, ReckonedImu
  <2>2. CASE record.type # "I"
    <3>1. FixesOf(Q) = FixesOf(R)
      BY <1>2, KindsGrow
    <3>2. Reckoned(Q, m.dr, m.drGnss)
      BY <1>1, <1>2, <2>2, <3>1, ReckonedStays
    <3> QED BY <2>2, <3>2
  <2> QED BY <2>1, <2>2
<1> QED
  BY <1>1, <1>3, <1>4 DEF OpenOf, Q

\* Its heading: the series shows the record too.
LEMMA OpenHeaded ==
  ASSUME NEW lines \in Seq(Lines), NEW m \in Monitors, NEW record, record.type \in {"F", "I"},
         OpenOf("heading", record, lines, m), NEW k, k.dr = m.dr, k.drGnss = m.drGnss,
         k.fused.t = m.fused.t, k.open.t = m.open.t,
         m[SeriesOf(record)].t # <<>>, k[SeriesOf(record)].heading # <<>>,
         Last(k[SeriesOf(record)].heading) = SampleOf(m.dr, record).heading,
         record.type # "F" => k.fused.heading = m.fused.heading,
         record.type # "I" => k.open.heading = m.open.heading
  PROVE  OpenOf("rest", record, lines, k)
<1> DEFINE Q == ReadBy("heading", lines)
           n == Len(lines)
<1>1. /\ lines # <<>> /\ record = Parsed[lines[n]] /\ Reckoned(Q, m.dr, m.drGnss)
      /\ record.type = "F" \/ FusedShown(Q, m.fused)
      /\ record.type = "I" \/ OpenShown(Q, m.open)
  BY DEF OpenOf, Reading
<1>2. IsTrack(Q, n) /\ n \in Nat /\ n > 0 /\ Q[n] = record /\ ReadBy("rest", lines) = Q
  <2>1. n - Ahead("heading") = n /\ n \in Nat /\ n > 0
    BY <1>1 DEF Ahead
  <2>2. IsTrack(Q, n - Ahead("heading"))
    BY ReadTrack
  <2> QED BY <1>1, <2>1, <2>2 DEF ReadBy, Ahead
<1> HIDE DEF Q, n
<1>3. FusedShown(Q, k.fused)
  <2>1. CASE record.type = "F"
    <3>1. k.fused.t # <<>> /\ k.fused.heading # <<>>
          /\ Last(k.fused.heading) = Scalar(record, "heading_deg")
      BY <2>1 DEF SeriesOf, SampleOf
    <3>2. OfKind(Q, "F") # {} /\ Max(OfKind(Q, "F")) = n
      BY <1>2, <2>1, NewestRead
    <3> QED BY <1>2, <3>1, <3>2 DEF FusedShown
  <2>2. CASE record.type # "F"
    BY <1>1, <2>2 DEF FusedShown
  <2> QED BY <2>1, <2>2
<1>4. OpenShown(Q, k.open)
  <2>1. CASE record.type = "I"
    <3>1. k.open.t # <<>> /\ k.open.heading # <<>> /\ Last(k.open.heading) = m.dr.heading
      BY <2>1 DEF SeriesOf, SampleOf
    <3>2. OfKind(Q, "I") # {} /\ ShownAnchor(Q) = AnchorOf(Q)
      BY <1>2, <2>1, NewestRead
    <3>3. SameDirection(m.dr.heading, Expected(Q, AnchorOf(Q)))
      BY <1>1, <3>2 DEF Reckoned
    <3> QED BY <3>1, <3>2, <3>3 DEF OpenShown
  <2>2. CASE record.type # "I"
    BY <1>1, <2>2 DEF OpenShown
  <2> QED BY <2>1, <2>2
<1> QED
  BY <1>1, <1>2, <1>3, <1>4 DEF OpenOf, n

\* The other columns are not in question.
LEMMA OpenRested ==
  ASSUME NEW lines, NEW m, NEW record, OpenOf("rest", record, lines, m), NEW k, NEW other,
         k.dr = m.dr, k.drGnss = m.drGnss, k.fused.t = m.fused.t, k.open.t = m.open.t,
         k.fused.heading = m.fused.heading, k.open.heading = m.open.heading
  PROVE  OpenOf("pull", other, lines, k)
<1>1. ReadBy("pull", lines) = ReadBy("rest", lines)
  BY DEF ReadBy, Ahead
<1> QED
  BY <1>1 DEF OpenOf, Reading, FusedShown, OpenShown

LEMMA OpenReader ==
  ASSUME LiveInv, OpenInv, NEW s \in Sessions, ReaderStep(s) PROVE OpenInv'
<1> USE DEF LiveInv
<1> DEFINE record == reader[s].record
           m == state[s]
           lines == handed[s]
           Goal == OpenOf(reader'[s].pc, reader'[s].record, handed'[s], state'[s])
<1>1. \A t \in Sessions \ {s} :
        /\ reader'[t] = reader[t] /\ state'[t] = state[t] /\ handed'[t] = handed[t]
  BY ReaderFrame
<1>2. /\ m \in Monitors /\ record \in Records /\ lines \in Seq(Lines)
      /\ OpenOf(reader[s].pc, record, lines, m)
  BY DEF TypeInv, Readers, OpenInv
<1> SUFFICES Goal
  <2>1. Goal => \A t \in Sessions :
                  OpenOf(reader'[t].pc, reader'[t].record, handed'[t], state'[t])
    BY <1>1 DEF OpenInv
  <2> QED BY <2>1 DEF OpenInv
<1>3. reader'[s].pc \notin Reading => Goal
  BY DEF OpenOf
<1>4. CASE Receive(s)
  <2>1. PICK line : handed' = [handed EXCEPT ![s] = Append(@, line)] /\ Tee(s, line)
                    /\ reader[s].pc = "pull"
    BY <1>4 DEF Receive
  <2>2. CASE Raise(s)
    <3>1. reader'[s].pc = "failed"
      BY <2>2 DEF Raise, NoRecordHeld, TypeInv, Readers
    <3> QED BY <1>3, <3>1 DEF Reading
  <2>3. CASE ~Raise(s)
    <3>1. reader' = [reader EXCEPT ![s] = [pc |-> "parse", record |-> Parsed[line]]]
          /\ state' = state
      BY <2>1, <2>3 DEF Tee
    <3>2. reader'[s].pc = "parse" /\ reader'[s].record = Parsed[line]
          /\ handed'[s] = Append(lines, line)
      BY <2>1, <3>1 DEF TypeInv, Readers
    <3> DEFINE longer == Append(lines, line)
    <3>3. Len(longer) = Len(lines) + 1 /\ longer[Len(longer)] = line /\ longer # <<>>
          /\ Len(lines) \in Nat /\ \A i \in 1 .. Len(lines) : longer[i] = lines[i]
      BY <1>2
    <3> HIDE DEF longer
    <3>4. ReadBy("parse", longer) = ReadBy("pull", lines)
      BY <3>3 DEF ReadBy, Ahead
    <3>5. OpenOf("parse", Parsed[line], longer, m)
      BY <1>2, <2>1, <3>3, <3>4 DEF OpenOf, Reading
    <3> QED BY <3>1, <3>2, <3>5 DEF longer
  <2> QED BY <2>2, <2>3
<1>5. CASE Unplug(s) \/ Exhaust(s)
  <2>1. reader'[s].pc \in {"failed", "done"}
    BY <1>5 DEF Unplug, Exhaust, Raise, NoRecordHeld, TypeInv, Readers
  <2> QED BY <1>3, <2>1 DEF Reading
<1>6. CASE Parse(s)
  <2>1. reader[s].pc = "parse" /\ \/ state'[s] = [m EXCEPT !.seen = @ + 1]
                                  \/ state'[s] = [m EXCEPT !.seen = @ + 1, !.parsed = @ + 1]
        /\ handed' = handed
    BY <1>6 DEF Parse, TypeInv, sourceVars
  <2>2. /\ state'[s].fused = m.fused /\ state'[s].open = m.open
        /\ state'[s].dr = m.dr /\ state'[s].drGnss = m.drGnss
    BY <1>2, <2>1 DEF Monitors
  <2>3. OpenOf("lock", record, lines, m)
    <3>1. ReadBy("lock", lines) = ReadBy("parse", lines)
      BY DEF ReadBy, Ahead
    <3> QED BY <1>2, <2>1, <3>1 DEF OpenOf, Reading
  <2>4. CASE record.type = "None"
    <3>1. reader'[s].pc = "pull" /\ Update(m, record) = m
      BY <1>6, <2>4 DEF Parse, TypeInv, Readers, Update
    <3>2. OpenOf("pull", reader'[s].record, lines, Update(m, record))
      BY <1>2, <2>3, <2>4, OpenApplied
    <3> QED BY <2>1, <2>2, <3>1, <3>2, OpenSameData
  <2>5. CASE record.type # "None"
    <3>1. reader'[s].pc = "lock" /\ reader'[s].record = record
      BY <1>6, <2>5 DEF Parse, TypeInv, Readers
    <3> QED BY <2>1, <2>2, <2>3, <3>1, OpenSameData
  <2> QED BY <2>4, <2>5
<1>7. CASE Apply(s)
  <2>1. /\ reader[s].pc = "lock" /\ record.type \notin {"F", "I"} /\ handed' = handed
        /\ state'[s] = Update(m, record) /\ reader'[s].pc = "pull"
    BY <1>7 DEF Apply, TypeInv, Readers, NoRecordHeld, sourceVars
  <2>2. OpenOf("pull", reader'[s].record, lines, Update(m, record))
    BY <1>2, <2>1, OpenApplied
  <2> QED BY <2>1, <2>2
<1> DEFINE series == SeriesOf(record)
<1>8. series \in Tracks /\ (record.type # "F" => series # "fused")
      /\ (record.type = "F" => series # "open")
  BY DEF SeriesOf, Tracks
<1>9. CASE AppendTime(s)
  <2> DEFINE dr == IF record.type = "I" THEN Reckon(m, record) ELSE m.dr
             stepped == [m EXCEPT !.dr = dr]
  <2>1. /\ reader[s].pc = "lock" /\ record.type \in {"F", "I"} /\ handed' = handed
        /\ state'[s] = PushColumn(stepped, series, "t", Stamp(record))
        /\ reader'[s].pc = "heading" /\ reader'[s].record = record
    BY <1>9 DEF AppendTime, TypeInv, Readers, sourceVars
  <2> HIDE DEF dr
  <2>2. /\ {"fused", "open", "dr", "drGnss"} \subseteq DOMAIN stepped
        /\ stepped.dr = dr /\ stepped.drGnss = m.drGnss
        /\ stepped.fused = m.fused /\ stepped.open = m.open
    BY <1>2 DEF Monitors
  <2> DEFINE k == PushColumn(stepped, series, "t", Stamp(record))
  <2>3. /\ k.dr = dr /\ k.drGnss = m.drGnss
        /\ record.type # "F" => k.fused = m.fused
        /\ record.type # "I" => k.open = m.open
    <3> HIDE DEF stepped
    <3>1. /\ k.dr = stepped.dr /\ k.drGnss = stepped.drGnss
          /\ series # "fused" => k.fused = stepped.fused
          /\ series # "open" => k.open = stepped.open
      <4> HIDE DEF series
      <4> QED BY <1>8, <2>2 DEF PushColumn, Tracks
    <3> QED BY <1>8, <2>1, <2>2, <3>1
  <2> HIDE DEF k, stepped
  <2>4. OpenOf("heading", record, lines, k)
    BY <1>2, <2>1, <2>3, OpenTimed DEF dr
  <2> QED BY <2>1, <2>4 DEF k
<1>10. CASE AppendHeading(s)
  <2>1. /\ reader[s].pc = "heading" /\ handed' = handed
        /\ state'[s] = PushColumn(m, series, "heading", Pending(s).heading)
        /\ reader'[s].pc = "rest" /\ reader'[s].record = record
    BY <1>10 DEF AppendHeading, TypeInv, Readers, sourceVars
  <2>2. record.type \in {"F", "I"} /\ Mid(s)
    BY <2>1 DEF LockInv, Mid
  <2>3. /\ state'[s][series].heading = Push(m[series].heading, Pending(s).heading)
        /\ SameBut(state'[s], m, series, {"heading"})
    BY <1>10, ReaderData
  <2>4. state'[s].dr = m.dr /\ state'[s].drGnss = m.drGnss
    BY <1>2, <1>8, <2>1, PushKeepsReckoner
  <2>5. m[series].t # <<>>
    BY <1>8, <2>2 DEF ColumnInv, OneLength
  <2>6. state'[s][series].heading # <<>>
        /\ Last(state'[s][series].heading) = SampleOf(m.dr, record).heading
    <3>1. Pending(s).heading \in Quarters /\ m[series].heading \in Seq(Quarters)
      BY <1>2, <1>8, <2>2, PendingIsSample DEF PendingFacts, Monitors, Serieses, Tracks
    <3>2. IsPush(Quarters, Push(m[series].heading, Pending(s).heading),
                 m[series].heading, Pending(s).heading)
      BY <3>1, PushFacts
    <3>3. Pending(s) = SampleOf(m.dr, record)
      BY DEF Pending
    <3>4. \A p, q, v : IsPush(Quarters, p, q, v) => p # <<>> /\ Last(p) = v
      BY DEF IsPush, Last
    <3> QED BY <2>3, <3>2, <3>3, <3>4
  <2>7. /\ state'[s].fused.t = m.fused.t /\ state'[s].open.t = m.open.t
        /\ record.type # "F" => state'[s].fused.heading = m.fused.heading
        /\ record.type # "I" => state'[s].open.heading = m.open.heading
    BY <1>8, <2>2, <2>3 DEF SameBut, Tracks, Columns
  <2>8. OpenOf("rest", record, lines, state'[s])
    BY <1>2, <2>1, <2>2, <2>4, <2>5, <2>6, <2>7, OpenHeaded
  <2> QED BY <2>1, <2>8
<1>11. CASE AppendRest(s)
  <2> DEFINE rolled == PushColumn(m, series, "roll", Pending(s).roll)
             whole == PushColumn(rolled, series, "pitch", Pending(s).pitch)
  <2>1. /\ reader[s].pc = "rest" /\ handed' = handed /\ reader'[s].pc = "pull"
        /\ state'[s] = [whole EXCEPT !.latest = Pending(s).t]
    BY <1>11 DEF AppendRest, TypeInv, Readers, NoRecordHeld, sourceVars
  <2>2. Mid(s) /\ SameBut(state'[s], m, series, {"roll", "pitch"})
    BY <1>11, <2>1, ReaderData DEF Mid
  <2>3. Pending(s).roll \in Values("roll") /\ Pending(s).pitch \in Values("pitch")
    BY <2>2, PendingIsSample DEF PendingFacts, Values
  <2>4. rolled \in Monitors /\ rolled.dr = m.dr /\ rolled.drGnss = m.drGnss
    BY <1>2, <1>8, <2>3, PushColumnFacts, PushKeepsReckoner DEF PushedOnly
  <2> HIDE DEF rolled
  <2>5. whole \in Monitors /\ whole.dr = m.dr /\ whole.drGnss = m.drGnss
    BY <1>8, <2>3, <2>4, PushColumnFacts, PushKeepsReckoner DEF PushedOnly
  <2> HIDE DEF whole
  <2>6. state'[s].dr = m.dr /\ state'[s].drGnss = m.drGnss
    BY <2>1, <2>5 DEF Monitors
  <2>7. /\ state'[s].fused.t = m.fused.t /\ state'[s].open.t = m.open.t
        /\ state'[s].fused.heading = m.fused.heading /\ state'[s].open.heading = m.open.heading
    BY <2>2 DEF SameBut, Tracks, Columns
  <2>8. OpenOf("rest", record, lines, m)
    BY <1>2, <2>1
  <2> HIDE DEF m, lines, record
  <2>9. OpenOf("pull", reader'[s].record, lines, state'[s])
    BY <2>6, <2>7, <2>8, OpenRested
  <2> QED BY <2>1, <2>9 DEF lines
<1> QED
  BY <1>4, <1>5, <1>6, <1>7, <1>9, <1>10, <1>11 DEF ReaderStep, Drains

LEMMA OpenStep == LiveInv /\ OpenInv /\ [LiveNext]_liveVars => OpenInv'
<1> SUFFICES ASSUME LiveInv, OpenInv, [LiveNext]_liveVars PROVE OpenInv'
  OBVIOUS
<1>1. CASE MainStep
  BY <1>1, OpenMain
<1>2. CASE GuiStep
  BY <1>2, OpenGui
<1>3. CASE \E s \in Sessions : ReaderStep(s)
  BY <1>3, OpenReader
<1>4. CASE UNCHANGED liveVars
  BY <1>4 DEF liveVars, sourceVars, OpenInv
<1> QED
  BY <1>1, <1>2, <1>3, <1>4 DEF LiveNext

\* What the property of LiveView says of one session.
Track(s) == [i \in DOMAIN handed[s] |-> Parsed[handed[s][i]]]
PropertyAnchor(R) ==
  IF FixesOf(R) = {} THEN FirstOf(R) ELSE Min(FixesOf(R) \cup {LastOf(R)})
PropertyTurns(R, anchor) ==
  MapThenSumSet(LAMBDA k : TurnAt(R, k), TurnsAfter(R, anchor))

LEMMA TurnsAreTotal ==
  ASSUME NEW R, NEW anchor PROVE PropertyTurns(R, anchor) = Turned(R, anchor)
BY DEF PropertyTurns, Turned, Turns, Total, SumEquation, MapThenSumSet, MapThenFoldSet

\* The property's anchor is the fix that came before the last I line, if any.
LEMMA AnchorsAgree ==
  ASSUME NEW R, NEW n, IsTrack(R, n), OfKind(R, "I") # {}
  PROVE  Expected(R, PropertyAnchor(R)) = Expected(R, ShownAnchor(R))
<1> DEFINE F == FixesOf(R)
           both == F \cup {LastOf(R)}
<1>1. /\ F \subseteq 1 .. n /\ n \in Nat /\ LastOf(R) \in 1 .. n
      /\ LastOf(R) \notin F /\ FirstOf(R) \notin F
  BY TrackSets DEF IsTrack, OfKind
<1>2. F # {} => Min(F) \in F /\ \A i \in F : Min(F) <= i
  BY TrackSets
<1>3. CASE F = {}
  BY <1>3 DEF PropertyAnchor, ShownAnchor
<1>4. CASE F # {} /\ \E i \in F : i < LastOf(R)
  <2>1. Min(F) \in both /\ \A i \in both : Min(F) <= i
    BY <1>1, <1>2, <1>4
  <2>2. Min(both) = Min(F)
    BY <1>1, <2>1, LeastIsMin
  <2> QED BY <1>4, <2>2 DEF PropertyAnchor, ShownAnchor
<1>5. CASE F # {} /\ ~\E i \in F : i < LastOf(R)
  <2>1. LastOf(R) \in both /\ \A i \in both : LastOf(R) <= i
    BY <1>1, <1>5
  <2>2. Min(both) = LastOf(R)
    BY <1>1, <2>1, LeastIsMin
  <2>3. PropertyAnchor(R) = LastOf(R) /\ ShownAnchor(R) = FirstOf(R)
    BY <1>5, <2>2 DEF PropertyAnchor, ShownAnchor
  <2>4. Base(R, LastOf(R)) = Base(R, FirstOf(R)) /\ Since(R, LastOf(R)) = Since(R, FirstOf(R))
    BY <1>1 DEF Base, Since
  <2>5. TurnsAfter(R, LastOf(R)) = TurnsAfter(R, FirstOf(R))
    BY <2>4 DEF TurnsAfter
  <2>6. Turned(R, LastOf(R)) = Turned(R, FirstOf(R))
    BY <2>5 DEF Turned, Turns
  <2> QED BY <2>3, <2>4, <2>6 DEF Expected
<1> QED
  BY <1>3, <1>4, <1>5

LEMMA OpenFromInv == LiveInv /\ OpenInv => OpenLoopIsAnchorPlusTurn
<1> SUFFICES ASSUME LiveInv, OpenInv, NEW s \in Sessions,
                    reader[s].pc = "pull", state[s].open.t # <<>>
             PROVE  (Last(state[s].open.heading)
                       - (Base(Track(s), PropertyAnchor(Track(s)))
                          - PropertyTurns(Track(s), PropertyAnchor(Track(s))))) % Turn = 0
  BY DEF OpenLoopIsAnchorPlusTurn, Base, PropertyAnchor, PropertyTurns, Track, TurnsAfter,
         TurnAt, Since, FixesOf, FirstOf, LastOf, OfKind
<1> DEFINE R == Track(s)
           n == Len(handed[s])
<1>1. handed[s] \in Seq(Lines) /\ state[s] \in Monitors
  BY DEF LiveInv, TypeInv
<1>2. R = ReadBy("pull", handed[s]) /\ IsTrack(R, n)
  <2>1. R = ReadBy("pull", handed[s]) /\ n - Ahead("pull") = n
    BY <1>1 DEF Track, ReadBy, Ahead
  <2>2. IsTrack(ReadBy("pull", handed[s]), n - Ahead("pull"))
    BY <1>1, ReadTrack
  <2> QED BY <2>1, <2>2
<1>3. OpenShown(R, state[s].open)
  BY <1>2 DEF OpenInv, OpenOf, Reading
<1> HIDE DEF R
<1>4. /\ OfKind(R, "I") # {} /\ state[s].open.heading # <<>>
      /\ SameDirection(Last(state[s].open.heading), Expected(R, ShownAnchor(R)))
  BY <1>3 DEF OpenShown
<1>5. Expected(R, PropertyAnchor(R)) = Expected(R, ShownAnchor(R))
      /\ Expected(R, ShownAnchor(R)) \in Int
  BY <1>2, <1>4, AnchorsAgree, AnchorsAre, ExpectedInt
<1>6. Last(state[s].open.heading) \in Int
  <2>1. state[s].open.heading \in Seq(Quarters)
    BY <1>1 DEF Monitors, Serieses
  <2> QED BY <1>4, <2>1 DEF Last, Quarters
<1>7. (Last(state[s].open.heading) - Expected(R, PropertyAnchor(R))) % Turn = 0
  BY <1>4, <1>5, <1>6, DirectionsMeet
<1>8. PropertyTurns(R, PropertyAnchor(R)) = Turned(R, PropertyAnchor(R))
  BY TurnsAreTotal
<1> QED
  BY <1>7, <1>8 DEF Expected, R

\* The open-loop heading the monitor shows is the anchor, turned by every
\* interval since, whatever order the lines came in (monitor.py,
\* deadreckon.py): OpenLoopIsAnchorPlusTurn.
THEOREM OpenLoopAddsUp == LiveSpec => []OpenLoopIsAnchorPlusTurn
<1>1. LiveInit => LiveInv /\ OpenInv
  BY LiveInvInit, OpenInit
<1>2. LiveInv /\ OpenInv /\ [LiveNext]_liveVars => LiveInv' /\ OpenInv'
  BY LiveInvStep, OpenStep
<1>3. LiveInv /\ OpenInv => OpenLoopIsAnchorPlusTurn
  BY OpenFromInv
<1> QED
  BY <1>1, <1>2, <1>3, PTL DEF LiveSpec
=============================================================================
