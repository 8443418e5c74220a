--------------------------------- MODULE MCXdr --------------------------------
(***************************************************************************)
(* File names and call scripts for model checking Xdr.                     *)
(***************************************************************************)
EXTENDS Xdr

\* Names as character sequences.
MMesh == <<"m", "e", "s", "h">>
MBz2 == <<"m">> \o BZ2
MXz == <<"m">> \o XZ
MGz == <<"m">> \o GZ
MOut == <<"o", "u", "t">>

MCPid == <<"_", "p">>

MCSizeT == 2^16

DataCall(kind, val, comment) ==
  [op |-> "data", kind |-> kind, val |-> val, comment |-> comment, lb |-> NoBreak]

Stream(val, lb) ==
  [op |-> "stream", kind |-> "vint", val |-> val, comment |-> <<>>, lb |-> lb]

\* data_stream on double (or float, long double) and on complex values.
RealStream(val, lb) == [Stream(val, lb) EXCEPT !.kind = "vreal"]
ComplexStream(val, lb) == [Stream(val, lb) EXCEPT !.kind = "vcomplex"]

Remark == [op |-> "comment", kind |-> "string", val |-> <<>>, comment |-> Comment, lb |-> NoBreak]

\* Every kind of call, with and without comments, empty strings and
\* vectors, a string with a space, and data_stream with and without line
\* breaks (a short last line), each followed by a call that skips white
\* space first.
ScriptAll ==
  << DataCall("int", 1, Comment), DataCall("string", <<"a", " ", "a">>, <<>>),
     DataCall("vint", <<1, 2>>, Comment), Stream(<<1, 2, 1>>, 2),
     DataCall("int", 2, <<>>), Remark, DataCall("vstring", <<<<"a">>, <<"a", "a">>>>, Comment),
     Stream(<<2, 0>>, NoBreak), DataCall("vint", <<>>, <<>>),
     DataCall("string", <<>>, Comment) >>

\* Floating and complex values through data() and data_stream(): scalars,
\* vectors (an empty one among them), and streams with a full and a short
\* last line, each followed by a call that skips white space first.
ScriptFloat ==
  << DataCall("real", 2, Comment), DataCall("complex", <<1, 2>>, <<>>),
     DataCall("vreal", <<1, 0>>, Comment), DataCall("vcomplex", <<<<1, 0>>, <<2, 2>>>>, <<>>),
     ComplexStream(<<<<1, 2>>, <<0, 1>>, <<2, 0>>>>, 2), DataCall("int", 1, <<>>),
     RealStream(<<2, 1, 0>>, NoBreak), DataCall("vcomplex", <<>>, Comment),
     RealStream(<<1, 2>>, 2), DataCall("real", 1, <<>>) >>

ScriptShort == << DataCall("vint", <<>>, Comment), DataCall("string", <<"a">>, <<>>), Remark >>

Scenario(name, binary, script, target) ==
  [name |-> name, binary |-> binary, script |-> script, target |-> target]

ScenariosMain ==
  { Scenario(MMesh, FALSE, ScriptAll, <<>>), Scenario(MBz2, FALSE, ScriptAll, <<>>),
    Scenario(MXz, FALSE, ScriptAll, <<>>), Scenario(MGz, FALSE, ScriptShort, <<>>),
    Scenario(MMesh, TRUE, ScriptAll, <<>>), Scenario(MBz2, TRUE, ScriptShort, <<>>),
    Scenario(MMesh, FALSE, ScriptFloat, <<>>), Scenario(MMesh, TRUE, ScriptFloat, <<>>) }

\* A plain-text file whose name has three characters.
ScenariosShortName == { Scenario(MOut, FALSE, ScriptShort, <<>>) }

==============================================================================
