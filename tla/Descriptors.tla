---------------------------- MODULE Descriptors ----------------------------
(***************************************************************************)
(* The texts that name methods and fields: how descriptor.rs parses them,  *)
(* how types.rs writes them back for the comparison with what guest code   *)
(* passes to GetMethodID, and which Java name javashim/base.py takes from  *)
(* the same text.  A text is a sequence of characters.  A parse answers a  *)
(* set: {} is InvalidDescriptor, {x} is x.  A type is [dims, of]: `of` is  *)
(* the text of what is left without the brackets.                          *)
(***************************************************************************)
EXTENDS Naturals, Sequences, SequencesExt

(* find and rfind: 0 is None.                                              *)
First(c, s) == SelectInSeq(s, LAMBDA x : x = c)
Last1(c, s) == SelectLastInSeq(s, LAMBDA x : x = c)

Before(s, i) == SubSeq(s, 1, i - 1)
After(s, i) == SubSeq(s, i + 1, Len(s))

Letters == {"V", "Z", "B", "C", "S", "I", "J", "F", "D"}

(* The end of the type that starts at i, its brackets behind it: 0 is      *)
(* none.  A class name may not be empty.                                   *)
TypeEnd(s, i) ==
  IF s[i] \in Letters THEN i
  ELSE IF s[i] = "L" /\ First(";", After(s, i)) > 1 THEN i + First(";", After(s, i))
  ELSE 0

(* The class name ends at the last semicolon (mutant).                     *)
ParseTypeGreedy(s) ==
  LET i   == SelectInSeq(s, LAMBDA x : x # "[")
      end == IF s[i] = "L" THEN Last1(";", s) ELSE TypeEnd(s, i)
  IN  IF i = 0 \/ end = 0 THEN {}
      ELSE {[ty |-> [dims |-> i - 1, of |-> SubSeq(s, i, end)], rest |-> After(s, end)]}

ParseType(s) ==
  LET i   == SelectInSeq(s, LAMBDA x : x # "[")
      end == TypeEnd(s, i)
  IN  IF i = 0 \/ end = 0 THEN {}
      ELSE {[ty |-> [dims |-> i - 1, of |-> SubSeq(s, i, end)], rest |-> After(s, end)]}

ParseTypeList(text) ==
  LET from[s \in Seq(ToSet(text))] ==
        IF s = <<>> THEN {<<>>}
        ELSE UNION {{<<p.ty>> \o types : types \in from[p.rest]} : p \in ParseType(s)}
  IN  from[text]

(* "[class.]name(types)type".  What follows the return type is not read.   *)
MethodSigParse(raw) ==
  LET dot   == First(".", raw)
      part  == After(raw, dot)
      open  == First("(", part)
      after == After(part, open)
      close == First(")", after)
  IN  IF \/ dot > 0 /\ {"(", ")"} \cap ToSet(Before(raw, dot)) # {}
         \/ open <= 1 \/ close = 0
        THEN {}
        ELSE UNION {{[class |-> Before(raw, dot), name |-> Before(part, open),
                      args |-> args, ret |-> p.ty] :
                     p \in ParseType(After(after, close))} :
                    args \in ParseTypeList(Before(after, close))}

(* "[class.]name:type", to the last character.                             *)
FieldSigParse(raw) ==
  LET colon == Last1(":", raw)
      part  == Before(raw, colon)
      dot   == Last1(".", part)
      name  == After(part, dot)
  IN  IF colon = 0 \/ name = <<>> \/ dot = 1 THEN {}
      ELSE {[class |-> Before(part, dot), name |-> name, ty |-> p.ty] :
             p \in {q \in ParseType(After(raw, colon)) : q.rest = <<>>}}

JniLetter(ty) == [i \in 1..ty.dims |-> "["] \o ty.of

Descriptor(sig) ==
  <<"(">> \o FlattenSeq([i \in DOMAIN sig.args |-> JniLetter(sig.args[i])]) \o <<")">>
    \o JniLetter(sig.ret)

(* _java_name_from_descriptor of base.py.                                  *)
JavaName(desc) ==
  LET head == IF First("(", desc) = 0 THEN desc ELSE Before(desc, First("(", desc))
  IN  After(head, Last1(".", head))
-----------------------------------------------------------------------------
Dotted(class) == IF class = <<>> THEN <<>> ELSE class \o <<".">>

Dots(s) == Len(SelectSeq(s, LAMBDA c : c = "."))

(***************************************************************************)
(* Every text the decorators may carry means one thing to all who read it: *)
(* what the registry keeps, written back, is what was parsed (up to a tail *)
(* after the return type, and a leading dot), so that GetMethodID, which   *)
(* compares texts, finds exactly what a decorator registered; a field has  *)
(* no tail; and Python's dispatch table uses the registry's method name,   *)
(* unless a class was written with dots.                                   *)
(***************************************************************************)
TextMeansOne(text) ==
  /\ \A sig \in MethodSigParse(text) :
       LET written == sig.name \o Descriptor(sig)
       IN  /\ \E lead \in {Dotted(sig.class), Append(sig.class, ".")} :
                IsPrefix(lead \o written, text) /\ MethodSigParse(lead \o written) = {sig}
           /\ Dots(Before(text, First("(", text))) <= 1 => JavaName(text) = sig.name
  /\ \A sig \in FieldSigParse(text) :
       text = Dotted(sig.class) \o sig.name \o <<":">> \o JniLetter(sig.ty)

(* Every signature whose names keep to themselves is found in its text.    *)
SignatureRead(sig) ==
  /\ MethodSigParse(Dotted(sig.class) \o sig.name \o Descriptor(sig)) = {sig}
  /\ FieldSigParse(Dotted(sig.class) \o sig.name \o <<":">> \o JniLetter(sig.ret))
       = {[class |-> sig.class, name |-> sig.name, ty |-> sig.ret]}
=============================================================================
