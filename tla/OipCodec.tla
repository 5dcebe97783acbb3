-------------------------------- MODULE OipCodec --------------------------------
(***************************************************************************)
(* OipCodec (src/oip_codec.cpp): one request is decoded into named tensors,  *)
(* input by input, from JSON or from protobuf, and the tensors the model      *)
(* returns are encoded into a response, output by output.                    *)
(*                                                                         *)
(* A value of a request is a cell: what kind of JSON value it is, or was      *)
(* before protobuf typed it, and a number that stands for its contents.       *)
(* Buffers are sequences of elements, not of bytes. Floating point is not     *)
(* rounded here; integers are cut to the width of their datatype, and         *)
(* dimensions to that of an int.                                             *)
(***************************************************************************)
EXTENDS Integers, Sequences, FiniteSets, Functions

CONSTANTS Names,      \* names of tensors
          Requests,   \* the requests a client may send
          Results,    \* what the model may return: name -> tensor
          Specs,      \* the model's declared outputs, in order
          NonFinite,  \* what stands for infinities and NaN, which JSON cannot write
          Half32,     \* 2^31 and 2^63, half of the numbers that 32 and 64 bits
          Half64,     \* make; TLC's own integers end at 2^31
          NoRequest

ASSUME WidthsAssumption == /\ Half32 \in Nat /\ Half64 \in Nat
                           /\ 32768 < Half32 /\ Half32 < Half64

\* oip_dtype_to_omle and its inverse are the identity on these names.
Floats    == {"FP32", "FP64"}
Signed    == {"INT8", "INT16", "INT32", "INT64"}
Unsigned  == {"UINT8", "UINT16", "UINT32", "UINT64"}
Datatypes == Floats \union Signed \union Unsigned \union {"BOOL", "STRING", "BYTES", "FP16"}

\* A number of JSON is an integer or has a fraction or an exponent.
Cells == [kind : {"integer", "double", "string", "bool", "null"}, val : Int]

\* One input. With JSON, field tells whether there is a "data" array, and whole
\* whether name, datatype and shape are there and of the right type. With
\* protobuf, field is the member of contents that holds the values;
\* bytes_contents(0) may pack the elements of any type.
Fields == {"data", "none", "fp32", "fp64", "int", "int64", "uint", "uint64", "bool", "bytes"}
Input == [name : Names, datatype : STRING, shape : Seq(Int),
          whole : BOOLEAN, field : Fields, values : Seq(Cells)]

\* What BYTES in JSON does depends on the runtime's dtype_size, and so do BYTES and
\* STRING in raw contents.
ASSUME RequestsAssumption ==
  /\ NoRequest \notin Requests
  /\ \A q \in Requests :
       /\ q.protocol \in {"json", "grpc"} /\ q.body \in {"ok", "bad"}
       /\ q.inputs \in Seq(Input) /\ q.raws \in Seq(Seq(Int))
       /\ \A i \in DOMAIN q.inputs :
            /\ q.protocol = "json" => q.inputs[i].datatype # "BYTES"
            /\ i <= Len(q.raws) => q.inputs[i].datatype \notin {"STRING", "BYTES"}

\* The runtime's tensors are as large as their dimensions say, which are ints, and
\* those of datatype STRING hold strings.
ASSUME ResultsAssumption ==
  \A outs \in Results :
    /\ DOMAIN outs \subseteq Names /\ IsFiniteSet(DOMAIN outs)
    /\ \A name \in DOMAIN outs :
         LET t == outs[name]
         IN /\ t \in [datatype : Datatypes, layout : {"dense", "string", "sparse"},
                      n_rows : 0 .. Half32 - 1, n_cols : 0 .. Half32 - 1, data : Seq(Int)]
            /\ Len(t.data) = t.n_rows * t.n_cols
            /\ t.layout = "string" <=> t.datatype = "STRING"

\* A model declares each of its outputs once.
ASSUME SpecsAssumption == \A s \in Specs : s \in Seq(Names) /\ IsInjective(s)

VARIABLES request,    \* the request
          next,       \* the number of inputs that are decoded
          tensors,    \* result: name -> tensor
          phase,      \* where the handler is
          outputs,    \* what the model returned
          specs,      \* output_specs
          todo,       \* the names still to look at
          response    \* the outputs and raw_output_contents of the response

vars == <<request, next, tensors, phase, outputs, specs, todo, response>>
decoding == <<request, next, tensors>>
encoding == <<outputs, specs, todo, response>>

Init ==
  /\ request = NoRequest /\ next = 0 /\ tensors = <<>>
  /\ phase = "idle"
  /\ outputs = <<>> /\ specs = <<>> /\ todo = <<>>
  /\ response = [outs |-> <<>>, raws |-> <<>>]

-------------------------------------------------------------------------------
(* Integers *)

Half(datatype) ==
  CASE datatype \in {"INT8", "UINT8"} -> 128
    [] datatype \in {"INT16", "UINT16"} -> 32768
    [] datatype \in {"INT32", "UINT32"} -> Half32
    [] OTHER -> Half64

\* static_cast to the element's type.
Cut(datatype, n) ==
  LET size == 2 * Half(datatype)
      low  == n % size
  IN IF datatype \notin Signed \union Unsigned THEN n
     ELSE IF datatype \in Signed /\ low >= Half(datatype) THEN low - size
     ELSE low

\* The dimensions of a shape are int64_t, but rows and columns are ints.
AsInt(n) == Cut("INT32", n)

-------------------------------------------------------------------------------
(* Shapes *)

\* Rows are the first dimension; the others are multiplied into the columns. A
\* dynamic one counts there only if it is the second and last.
Rows(shape) == IF shape = <<>> THEN 1 ELSE AsInt(shape[1])

Cols(shape) ==
  LET cols[i \in DOMAIN shape] ==
        IF i = 1 THEN 1
        ELSE IF i = 2 THEN AsInt(shape[2])
        ELSE IF shape[i] = -1 THEN cols[i - 1]
        ELSE (IF cols[i - 1] = -1 THEN 1 ELSE cols[i - 1]) * AsInt(shape[i])
  IN IF shape = <<>> THEN 1 ELSE cols[Len(shape)]

\* Of negative dimensions only -1 is here, beyond the second only where it stands
\* for itself: the others make the code throw. Products of ints are ints, or what
\* the code does is undefined, and so is the number of values.
ASSUME ShapesAssumption ==
  \A q \in Requests :
    /\ \A i \in DOMAIN q.inputs :
         LET shape == q.inputs[i].shape
         IN /\ \A d \in DOMAIN shape :
                 /\ AsInt(shape[d]) \in Nat \union {-1}
                 /\ d > 2 /\ shape[d] # -1 => AsInt(shape[d]) # -1
                 /\ Cols(SubSeq(shape, 1, d)) < Half32
            /\ Rows(shape) * Cols(shape) < Half32
            /\ Len(q.inputs[i].values) < Half32
    /\ \A i \in DOMAIN q.raws : Len(q.raws[i]) < Half32

\* Mutant of resolve_dynamic_dims: the two unknown dimensions exchanged.
resolve_swapped(rows, cols, total) ==
  IF rows = -1 /\ cols > 0 THEN <<cols, total \div cols>>
  ELSE IF cols = -1 /\ rows > 0 THEN <<rows, total \div rows>>
  ELSE IF rows = -1 /\ cols = -1 THEN <<total, 1>>
  ELSE <<rows, cols>>

resolve_dynamic_dims(rows, cols, total) ==
  IF rows = -1 /\ cols > 0 THEN <<total \div cols, cols>>
  ELSE IF cols = -1 /\ rows > 0 THEN <<rows, total \div rows>>
  ELSE IF rows = -1 /\ cols = -1 THEN <<total, 1>>
  ELSE <<rows, cols>>

\* A tensor with the shape the input gives, its dynamic dimension inferred from
\* the number of values.
Tensor(in, total, data) ==
  LET dims == resolve_dynamic_dims(Rows(in.shape), Cols(in.shape), total)
  IN [datatype |-> in.datatype, n_rows |-> dims[1], n_cols |-> dims[2], data |-> data]

\* Tensor::dense: what it is filled with is the runtime's.
Blank == <<"blank">>

-------------------------------------------------------------------------------
(* JSON *)

\* simdjson's get_double, get_int64, get_uint64 and get_bool.
Reads(datatype, cell) ==
  \/ datatype \in Floats /\ cell.kind \in {"integer", "double"}
  \/ datatype \in Signed /\ cell.kind = "integer" /\ cell.val \in -Half64 .. Half64 - 1
  \/ datatype \in Unsigned /\ cell.kind = "integer" /\ cell.val \in 0 .. 2 * Half64 - 1
  \/ datatype = "BOOL" /\ cell.kind = "bool"

\* What an uninitialised variable may hold: zero, or something else.
Leftovers == {0, 1}

\* Mutant of Stored: the sign is lost on the way.
StoredUnsigned(datatype, cell) ==
  IF datatype = "FP16" THEN {0}
  ELSE IF ~Reads(datatype, cell) THEN Leftovers
  ELSE IF datatype \in Signed THEN {cell.val % (2 * Half(datatype))}
  ELSE {Cut(datatype, cell.val)}

\* The switch over the datatypes: a value that cannot be read leaves the local
\* variable as it was, and FP16 is not in the switch.
Stored(datatype, cell) ==
  IF datatype = "FP16" THEN {0}
  ELSE IF Reads(datatype, cell) THEN {Cut(datatype, cell.val)}
  ELSE Leftovers

Choices(in) ==
  { data \in [DOMAIN in.values -> UNION { Stored(in.datatype, in.values[i]) :
                                            i \in DOMAIN in.values }] :
      \A i \in DOMAIN in.values : data[i] \in Stored(in.datatype, in.values[i]) }

Plain(values) == [i \in DOMAIN values |-> values[i].val]

tensor_from_json_data(in) ==
  IF in.datatype = "STRING" THEN { Tensor(in, Len(in.values), Plain(in.values)) }
  ELSE { Tensor(in, Len(in.values), data) : data \in Choices(in) }

\* Without "data" the tensor has the shape as it was sent.
JsonTensors(in) ==
  IF in.field = "data" THEN tensor_from_json_data(in)
  ELSE { [datatype |-> in.datatype, n_rows |-> Rows(in.shape), n_cols |-> Cols(in.shape),
          data |-> Blank] }

\* Mutant of JsonRefuses: the datatype is not looked at.
JsonRefusesLess(in) ==
  \/ ~in.whole
  \/ /\ in.datatype = "STRING" /\ in.field = "data"
     /\ \E i \in DOMAIN in.values : in.values[i].kind # "string"

JsonRefuses(in) ==
  \/ ~in.whole
  \/ in.datatype \notin Datatypes
  \/ /\ in.datatype = "STRING" /\ in.field = "data"
     /\ \E i \in DOMAIN in.values : in.values[i].kind # "string"

-------------------------------------------------------------------------------
(* Protobuf *)

\* The contents that are counted for a datatype.
FieldOf(datatype) ==
  CASE datatype = "FP32" -> "fp32"
    [] datatype = "FP64" -> "fp64"
    [] datatype \in {"INT8", "INT16", "INT32"} -> "int"
    [] datatype = "INT64" -> "int64"
    [] datatype \in {"UINT8", "UINT16", "UINT32"} -> "uint"
    [] datatype = "UINT64" -> "uint64"
    [] datatype = "STRING" -> "bytes"
    [] datatype = "BOOL" -> "bool"
    [] OTHER -> "uncounted"

\* The datatypes whose contents are copied.
Copied == Floats \union {"INT32", "INT64", "STRING"}

\* resize(n), or a loop that stops at n: cut, or filled with zeros.
Resized(data, n) == [i \in 1 .. n |-> IF i \in DOMAIN data THEN data[i] ELSE 0]

\* Mutant of TypedTensor: the contents as they are.
TypedAsSent(in) ==
  LET found == IF in.field = FieldOf(in.datatype) THEN Plain(in.values) ELSE <<>>
      t     == Tensor(in, Len(found), Blank)
  IN [t EXCEPT !.data = IF in.datatype \in Copied THEN found
                        ELSE IF in.field = "bytes" /\ in.values # <<>> THEN Plain(in.values)
                        ELSE Blank]

\* Typed contents. Those of the other datatypes are counted, but what is taken is
\* bytes_contents(0), and without it the tensor stays blank.
TypedTensor(in) ==
  LET found == IF in.field = FieldOf(in.datatype) THEN Plain(in.values) ELSE <<>>
      t     == Tensor(in, Len(found), Blank)
  IN [t EXCEPT !.data = IF in.datatype \in Copied THEN Resized(found, t.n_rows * t.n_cols)
                        ELSE IF in.field = "bytes" /\ in.values # <<>> THEN Plain(in.values)
                        ELSE Blank]

\* The i-th raw contents belong to the i-th input.
GrpcTensor(inputs, raws, i) ==
  LET in == inputs[i]
  IN IF i <= Len(raws) THEN Tensor(in, Len(raws[i]), raws[i])
     ELSE TypedTensor(in)

-------------------------------------------------------------------------------
(* Decoding *)

Receive ==
  /\ phase = "idle"
  /\ request' \in Requests
  /\ phase' = "decoding"
  /\ UNCHANGED <<next, tensors, encoding>>

\* An error status is returned in place of the map.
Refuse ==
  /\ phase' = "refused" /\ tensors' = <<>>
  /\ UNCHANGED <<request, next, encoding>>

\* result[name] = ...
Put(name, t) ==
  /\ tensors' = [n \in DOMAIN tensors \union {name} |-> IF n = name THEN t ELSE tensors[n]]
  /\ next' = next + 1
  /\ UNCHANGED <<request, phase, encoding>>

\* parse_infer_request_json
JsonInput ==
  /\ phase = "decoding" /\ request.protocol = "json"
  /\ IF request.body = "bad" THEN Refuse
     ELSE /\ next < Len(request.inputs)
          /\ LET in == request.inputs[next + 1]
             IN IF JsonRefuses(in) THEN Refuse
                ELSE \E t \in JsonTensors(in) : Put(in.name, t)

\* decode_grpc_request
GrpcInput ==
  /\ phase = "decoding" /\ request.protocol = "grpc" /\ next < Len(request.inputs)
  /\ LET in == request.inputs[next + 1]
     IN IF in.datatype \notin Datatypes THEN Refuse
        ELSE Put(in.name, GrpcTensor(request.inputs, request.raws, next + 1))

FinishDecoding ==
  /\ phase = "decoding" /\ request.body = "ok" /\ next = Len(request.inputs)
  /\ phase' = "decoded"
  /\ UNCHANGED <<decoding, encoding>>

-------------------------------------------------------------------------------
(* Encoding *)

\* Mutant of Order: the order of the map, whatever is declared.
OrderOfMap(out, declared) ==
  { s \in [1 .. Cardinality(DOMAIN out) -> DOMAIN out] : Range(s) = DOMAIN out }

\* The declared outputs, in their order; all that the model returned, in the order
\* of the hash map, if none is declared.
Order(out, declared) ==
  IF declared = <<>>
  THEN { s \in [1 .. Cardinality(DOMAIN out) -> DOMAIN out] : Range(s) = DOMAIN out }
  ELSE {declared}

\* What the model makes of the tensors is not the codec's.
Predict ==
  /\ phase = "decoded"
  /\ outputs' \in Results /\ specs' \in Specs
  /\ todo' \in Order(outputs', specs')
  /\ phase' = "encoding"
  /\ UNCHANGED <<decoding, response>>

\* JSON takes every tensor's cells in row order. Protobuf takes the buffer of a
\* dense tensor into raw_output_contents and strings into the output's contents;
\* a sparse tensor's values go nowhere.
Out(name, field, values) ==
  LET t == outputs[name]
  IN [name |-> name, datatype |-> t.datatype, shape |-> <<t.n_rows, t.n_cols>>,
      whole |-> TRUE, field |-> field, values |-> values]

\* The cells of a tensor as they are written: t.get gives a floating-point number,
\* whatever the datatype, and the writer null for one that JSON has no number for.
Printed(t) ==
  [k \in DOMAIN t.data |->
     [kind |-> IF t.layout = "string" THEN "string"
               ELSE IF t.datatype \in Floats /\ t.data[k] \in NonFinite THEN "null"
               ELSE "double",
      val  |-> t.data[k]]]

\* Mutant of Emit: a raw buffer for each output, empty for strings.
EmitRawForAll(name) ==
  response' =
    LET t == outputs[name]
    IN IF request.protocol = "json"
       THEN [response EXCEPT !.outs = Append(@, Out(name, "data", Printed(t)))]
       ELSE IF t.layout = "string"
       THEN [outs |-> Append(response.outs, Out(name, "bytes", Printed(t))),
             raws |-> Append(response.raws, <<>>)]
       ELSE [outs |-> Append(response.outs, Out(name, "none", <<>>)),
             raws |-> IF t.layout = "dense" THEN Append(response.raws, t.data)
                      ELSE response.raws]

Emit(name) ==
  response' =
    LET t == outputs[name]
    IN IF request.protocol = "json"
       THEN [response EXCEPT !.outs = Append(@, Out(name, "data", Printed(t)))]
       ELSE IF t.layout = "string"
       THEN [response EXCEPT !.outs = Append(@, Out(name, "bytes", Printed(t)))]
       ELSE [outs |-> Append(response.outs, Out(name, "none", <<>>)),
             raws |-> IF t.layout = "dense" THEN Append(response.raws, t.data)
                      ELSE response.raws]

\* Of the declared outputs those are emitted that the model returned.
EmitNext ==
  /\ phase = "encoding" /\ todo # <<>>
  /\ IF Head(todo) \in DOMAIN outputs THEN Emit(Head(todo)) ELSE UNCHANGED response
  /\ todo' = Tail(todo)
  /\ UNCHANGED <<decoding, phase, outputs, specs>>

FinishEncoding ==
  /\ phase = "encoding" /\ todo = <<>>
  /\ phase' = "replied"
  /\ UNCHANGED <<decoding, encoding>>

Over == phase \in {"refused", "replied"} /\ UNCHANGED vars

Next == Receive \/ JsonInput \/ GrpcInput \/ FinishDecoding
        \/ Predict \/ EmitNext \/ FinishEncoding \/ Over

Spec == Init /\ [][Next]_vars

-------------------------------------------------------------------------------
(* Properties *)

Decoded == phase \in {"decoded", "encoding", "replied"}

\* The tensors, the numbers of their rows and columns, and what is in them, which
\* is only as long as the shape says where the code makes it so.
TypeOK ==
  /\ phase \in {"idle", "decoding", "decoded", "encoding", "replied", "refused"}
  /\ phase = "idle" <=> request = NoRequest
  /\ phase # "idle" => next \in 0 .. Len(request.inputs)
  /\ \A name \in DOMAIN tensors :
       LET t == tensors[name]
       IN t.datatype \in Datatypes /\ t.n_rows \in Int /\ t.n_cols \in Int
  /\ outputs \in Results \union {<<>>} /\ specs \in Specs \union {<<>>}
  /\ Range(todo) \subseteq DOMAIN outputs \union Range(specs)
  /\ Len(response.raws) <= Len(response.outs)

Raw(i) == request.protocol = "grpc" /\ i <= Len(request.raws)

\* The values the client sent with its i-th input.
Sent(i) == IF Raw(i) THEN request.raws[i] ELSE Plain(request.inputs[i].values)

\* An input nothing can be made of.
Unreadable(i) ==
  LET in == request.inputs[i]
  IN IF request.protocol = "json" THEN JsonRefuses(in) ELSE in.datatype \notin Datatypes

\* The last input that has the name.
IsLast(i, name) ==
  /\ request.inputs[i].name = name
  /\ \A j \in DOMAIN request.inputs : request.inputs[j].name = name => j <= i

\* A value that the datatype has.
InRange(datatype, n) ==
  /\ datatype \in Signed => n \in -Half(datatype) .. Half(datatype) - 1
  /\ datatype \in Unsigned => n \in 0 .. 2 * Half(datatype) - 1

\* The values came in a form that this datatype can be sent in, each of them in
\* the range of the datatype.
Carried(i) ==
  LET in == request.inputs[i]
  IN IF Raw(i) THEN TRUE
     ELSE IF request.protocol = "grpc"
     THEN in.datatype \in Copied /\ in.field = FieldOf(in.datatype)
     ELSE /\ in.field = "data"
          /\ in.datatype # "STRING" =>
               \A c \in Range(in.values) :
                 Reads(in.datatype, c) /\ InRange(in.datatype, c.val)

Product(shape, dims) == FoldFunctionOnSet(LAMBDA a, b : a * b, 1, shape, dims)

\* The shape is of ints and has room for exactly n values. One dimension may be
\* dynamic: the first, or the second of two.
Holds(shape, n) ==
  LET dynamic == { d \in DOMAIN shape : shape[d] = -1 }
      size    == Product(shape, DOMAIN shape \ dynamic)
  IN /\ \A d \in DOMAIN shape : InRange("INT32", shape[d])
     /\ \/ dynamic = {} /\ size = n
        \/ /\ dynamic = {1} \/ (dynamic = {2} /\ Len(shape) = 2)
           /\ size > 0 /\ n % size = 0

\* The tensor an input stands for: the values as they were sent, as many rows as
\* the first dimension says, unless it is dynamic, and the others for columns.
StandsFor(t, i) ==
  LET in == request.inputs[i]
      rest == 2 .. Len(in.shape)
  IN /\ t.datatype = in.datatype /\ t.data = Sent(i)
     /\ t.n_rows * t.n_cols = Len(Sent(i))
     /\ in.shape # <<>> /\ in.shape[1] # -1 => t.n_rows = in.shape[1]
     /\ (\A d \in rest : in.shape[d] # -1) => t.n_cols = Product(in.shape, rest)

\* A request is accepted exactly when each of its inputs can be read, and then
\* there is a tensor for each name, made of the last input that has the name. If
\* that input's values fit its datatype and its shape, the tensor is what they
\* stand for, whichever of the protocols' forms they came in: JSON data
\* (tensor_from_json_data), typed contents or raw contents (decode_grpc_request),
\* with a static or a dynamic dimension (resolve_dynamic_dims).
DecodedAsMeant ==
  /\ phase = "refused" =>
       request.body = "bad" \/ \E i \in DOMAIN request.inputs : Unreadable(i)
  /\ Decoded =>
       /\ \A i \in DOMAIN request.inputs : ~Unreadable(i)
       /\ DOMAIN tensors = { request.inputs[i].name : i \in DOMAIN request.inputs }
       /\ \A name \in DOMAIN tensors : \A i \in DOMAIN request.inputs :
            IsLast(i, name) /\ Carried(i) /\ Holds(request.inputs[i].shape, Len(Sent(i)))
              => StandsFor(tensors[name], i)

\* Typed contents of the copied datatypes never make a tensor that is larger or
\* smaller than its dimensions, however many values were sent: the buffer is
\* resized to n = rows * cols after the dynamic dimension is known (389-430).
TypedFits ==
  Decoded /\ request.protocol = "grpc" =>
    \A name \in DOMAIN tensors : \A i \in DOMAIN request.inputs :
      IsLast(i, name) /\ ~Raw(i) /\ request.inputs[i].datatype \in Copied
        => Len(tensors[name].data) = tensors[name].n_rows * tensors[name].n_cols

\* What the server's own decoders can make of the i-th output of the response.
Found(i) ==
  LET out == response.outs[i]
  IN IF request.protocol = "json"
     THEN IF JsonRefuses(out) THEN {} ELSE JsonTensors(out)
     ELSE { GrpcTensor(response.outs, response.raws, i) }

\* Outputs that those decoders can read. In JSON every number is written as a
\* floating-point one, which get_int64, get_uint64 and get_bool do not take. Over
\* gRPC all outputs are strings or all are dense (encode_grpc_response skips strings
\* in raw_output_contents, and sparse tensors altogether).
Readable(name) ==
  LET t == outputs[name]
  IN IF request.protocol = "json"
     THEN \/ t.layout = "string"
          \/ t.datatype \in Floats /\ Range(t.data) \intersect NonFinite = {}
     ELSE { outputs[n].layout : n \in DOMAIN outputs } \in {{"dense"}, {"string"}}

\* A response has every declared output that the model returned, in the declared
\* order and once. A client that reads it as the server reads requests, the i-th
\* raw contents as the i-th output's, finds those that can be read that way as the
\* model returned them, and nothing else.
EchoDecodes ==
  phase = "replied" =>
    /\ { response.outs[i].name : i \in DOMAIN response.outs }
         = IF specs = <<>> THEN DOMAIN outputs ELSE Range(specs) \intersect DOMAIN outputs
    /\ \A i, j \in DOMAIN response.outs : i < j =>
         /\ response.outs[i].name # response.outs[j].name
         /\ specs # <<>> => \E k, l \in DOMAIN specs :
              k < l /\ specs[k] = response.outs[i].name /\ specs[l] = response.outs[j].name
    /\ \A i \in DOMAIN response.outs :
         LET t == outputs[response.outs[i].name]
         IN Readable(response.outs[i].name) =>
              Found(i) = { [datatype |-> t.datatype, n_rows |-> t.n_rows,
                            n_cols |-> t.n_cols, data |-> t.data] }

\* "malformed values silently default to zero, which is harmless" (oip_codec.cpp,
\* lines 109-110): a value that cannot be read is zero in the tensor.
MalformedIsZero ==
  Decoded /\ request.protocol = "json" =>
    \A name \in DOMAIN tensors : \A i \in DOMAIN request.inputs :
      LET in == request.inputs[i]
      IN IsLast(i, name) /\ in.field = "data" /\ in.datatype # "STRING" =>
           \A j \in DOMAIN in.values :
             ~Reads(in.datatype, in.values[j]) => tensors[name].data[j] = 0
===============================================================================
