------------------------------ MODULE MCOipCodec ------------------------------
(* OipCodec for TLC: every form of a single input, and a few forms of two.    *)
EXTENDS OipCodec

Num(n) == [kind |-> "integer", val |-> n]
Str(n) == [kind |-> "string", val |-> n]

\* As large as TLC's integers allow.
MCHalf32 == 2 ^ 20
MCHalf64 == 2 ^ 28
\* One more than 32 bits hold, which is cut to 1, and than 64 bits hold.
Wide == Num(2 * MCHalf32 + 1)
TooWide == Num(2 * MCHalf64 + 1)

UpTo2(S) == { <<>> } \union { <<a>> : a \in S } \union { <<a, b>> : a, b \in S }

MCShapes == { <<>>, <<0>>, <<2>>, <<-1>>, <<2, 1>>, <<-1, 2>>, <<2, -1>>, <<-1, -1>>,
              <<-1, 2, 1>>, <<1, 2, -1>> }
\* Dimensions that an int does not hold: they are cut to 2, to 1, and to -1.
WideShapes == { <<2 * MCHalf32 + 2>>, <<-1, 2 * MCHalf32 + 1>>, <<1, 2 * MCHalf32 - 1>> }

In(name, datatype, shape, whole, field, values) ==
  [name |-> name, datatype |-> datatype, shape |-> shape, whole |-> whole,
   field |-> field, values |-> values]

Request(protocol, body, inputs, raws) ==
  [protocol |-> protocol, body |-> body, inputs |-> inputs, raws |-> raws]

\* "FP8" is no datatype; 300 is too large for 8 bits; -1 has no unsigned form.
MCValues == UpTo2({Num(1), Num(300), Num(-1), Str(7)})
            \union { <<c>> : c \in { Wide, TooWide, [kind |-> "double", val |-> 1],
                                    [kind |-> "bool", val |-> 1], [kind |-> "null", val |-> 0] } }
MCJson == { In("x", datatype, shape, TRUE, "data", values) :
              datatype \in {"FP32", "INT8", "UINT8", "INT32", "UINT32", "INT64", "BOOL",
                            "STRING", "FP16", "FP8"},
              shape \in MCShapes, values \in MCValues }
          \union { In("x", datatype, shape, TRUE, field, values) :
                     datatype \in {"FP32", "STRING"}, shape \in MCShapes \union WideShapes,
                     field \in {"data", "none"}, values \in UpTo2({Num(1), Str(7)}) }
MCTyped == { In("x", datatype, shape, TRUE, field, values) :
               datatype \in {"FP32", "INT8", "INT32", "STRING", "BYTES", "FP16", "FP8"},
               shape \in MCShapes \union WideShapes, field \in {"none", "fp32", "int", "bytes"},
               values \in { <<>>, <<Num(1)>>, <<Num(1), Num(2)>>, <<Num(1), Num(2), Num(3)>> } }
MCRaw == { In("x", datatype, shape, TRUE, "none", <<>>) :
             datatype \in {"FP64", "UINT16"}, shape \in MCShapes }

\* Two inputs of two names or of one, the second without raw contents or refused.
MCPairs == { << In("x", "INT32", <<-1>>, TRUE, "int", <<Num(1)>>),
                In(name, datatype, <<-1, 1>>, TRUE, "fp32", <<Num(3), Num(4)>>) >> :
               name \in {"x", "y"}, datatype \in {"FP32", "FP8"} }
MCJsonPairs == { << In("x", "INT32", <<1>>, TRUE, "data", <<Num(1)>>),
                    In(name, "FP64", <<-1, 1>>, whole, "data", <<Num(3), Num(4)>>) >> :
                   name \in {"x", "y"}, whole \in BOOLEAN }

MCNames == {"x", "y", "z"}
MCRequests ==
  { Request("json", "ok", <<i>>, <<>>) : i \in MCJson }
  \union { Request("grpc", "ok", <<i>>, <<>>) : i \in MCTyped }
  \union { Request("grpc", "ok", <<i>>, <<raw>>) :
             i \in MCRaw, raw \in { <<>>, <<5>>, <<5, 6>> } }
  \union { Request("grpc", "ok", inputs, raws) : inputs \in MCPairs, raws \in { <<>>, << <<9>> >> } }
  \union { Request("json", body, inputs, <<>>) : inputs \in MCJsonPairs, body \in {"ok", "bad"} }
  \union { Request(protocol, "ok", <<>>, <<>>) : protocol \in {"json", "grpc"} }

\* The violation needs one input.
MCMalformed == { Request("json", "ok", <<In("x", "FP32", <<1>>, TRUE, "data", <<Str(7)>>)>>, <<>>) }

\* 9 stands for an infinity.
MCNonFinite == {9}
MCTensors == { [datatype |-> "FP32", layout |-> "dense", n_rows |-> 2, n_cols |-> 1,
                data |-> <<1, 2>>],
               [datatype |-> "STRING", layout |-> "string", n_rows |-> 1, n_cols |-> 2,
                data |-> <<3, 4>>],
               [datatype |-> "FP32", layout |-> "sparse", n_rows |-> 1, n_cols |-> 1,
                data |-> <<5>>] }
\* Those that JSON does not bring back.
MCOneWay == { [datatype |-> datatype, layout |-> "dense", n_rows |-> 1, n_cols |-> 1, data |-> <<9>>] :
                datatype \in {"FP64", "INT32", "BOOL", "FP16"} }
MCResults == [{"x"} -> MCTensors \union MCOneWay] \union [{"x", "y"} -> MCTensors]
\* "z" is declared, but the model does not return it.
MCSpecs == { <<>>, <<"y">>, <<"y", "z", "x">> }
===============================================================================
