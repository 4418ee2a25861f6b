----------------------------- MODULE MCFlowExec -----------------------------
(* Function bodies with one local, or one optional parameter: something      *)
(* before, a loop or a branch with up to two statements in each block, one   *)
(* of which may be a branch or a loop itself, and something after.           *)
EXTENDS FlowExec

CONSTANTS x

\* A piece of a body counts its lines from one, wherever it is put.
Shift(piece, by) ==
    [i \in DOMAIN piece |->
        CASE piece[i].kind = "If" -> [piece[i] EXCEPT !.other = @ + by, !.end = @ + by]
          [] piece[i].kind \in {"While", "For"} -> [piece[i] EXCEPT !.end = @ + by]
          [] piece[i].kind \in {"Else", "EndIf", "EndLoop"} -> [piece[i] EXCEPT !.head = @ + by]
          [] OTHER -> piece[i]]
Then(a, b) == a \o Shift(b, Len(a))
Branch(test, a, b) ==
    <<If(test, Len(a) + 2, Len(a) + Len(b) + 3)>> \o Shift(a, 1) \o <<Else(1)>> \o Shift(b, Len(a) + 2) \o <<EndIf(1)>>
Loop(test, a) == <<While(test, Len(a) + 2)>> \o Shift(a, 1) \o <<EndLoop(1)>>
Each(a) == <<For(x, Len(a) + 2)>> \o Shift(a, 1) \o <<EndLoop(1)>>

SetInt == <<Assign(x, "invalid", "int")>>
SetNone == <<Assign(x, "invalid", "None")>>
SetOptional == <<Assign(x, "optional", "optional")>>
Declare == <<Assign(x, "optional", "absent")>>
NeedInt == <<Call(x, "int")>>
Yield == <<Return("int")>>
Exit == <<Break>>
Again == <<Continue>>

IsNone == Is(x, FALSE)
IsNotNone == Is(x, TRUE)
Forever == True(FALSE)

Leaves == {SetInt, SetNone, SetOptional, NeedInt, Yield, Exit, Again}
Guarded == {And(IsNotNone, x, "int"), Or(IsNone, x, "int"), Or(IsNotNone, x, "optional")}

\* Branches as they occur inside a loop.
Inner == {Branch(t, a, b) : t \in {Opaque, IsNone}, a \in {SetInt, SetNone, Yield, Exit, Again},
                            b \in {<<>>, SetInt, Yield}}

\* Loops as they occur inside a loop.
Nested == {Loop(t, a) : t \in {Opaque, Forever, IsNone}, a \in {SetInt, SetNone, NeedInt, Exit}} \cup
          {Each(a) : a \in {SetNone, Exit, Again}}

LoopBodies ==
    Inner \cup Leaves \cup Nested \cup
    {Then(a, b) : a \in Nested, b \in Leaves} \cup
    {Then(a, b) : a \in Inner, b \in Leaves \ {SetOptional, Again}} \cup
    {Then(a, b) : a \in {SetInt, SetNone, NeedInt}, b \in Inner} \cup
    {Then(a, b) : a \in {SetInt, NeedInt}, b \in {SetInt, SetNone, Exit}}

Branches == Leaves \cup {Then(a, b) : a \in {SetInt, SetNone, SetOptional}, b \in {NeedInt, Yield}}

Compounds ==
    {Loop(t, b) : t \in {Opaque, Forever, IsNotNone}, b \in LoopBodies} \cup
    {Each(b) : b \in Inner \cup Leaves \cup Nested} \cup
    {Branch(t, a, b) : t \in Guarded, a \in Leaves, b \in {<<>>, SetInt, Yield}} \cup
    {Branch(t, a, b) : t \in {Opaque, IsNone, IsNotNone}, a \in Branches, b \in Branches \cup {<<>>}}

Guard == Branch(IsNone, Yield, <<>>)

Before == {<<>>, Declare, Guard, SetOptional}
Afterwards == {<<>>, Yield, Then(NeedInt, Yield), Then(SetInt, Then(NeedInt, Yield))}

AllBodies == {Then(Then(p, c), q) : p \in Before, c \in Compounds, q \in Afterwards}
============================================================================
