----------------------------- MODULE SupportMail -----------------------------
(***************************************************************************)
(* The escaping of user text in the concern email that SupportService      *)
(* sends (src/src/support/support.service.ts: buildConcernEmailTemplate    *)
(* and escapeHtml, 264-271).  Every field a seller typed (subject,         *)
(* message, names, address) is put through escapeHtml before it is placed  *)
(* in the HTML body.                                                       *)
(*                                                                         *)
(* A text is a sequence of one-character strings.  escapeHtml is a chain  *)
(* of five global replaces, each over the output of the one before, and is *)
(* modelled as exactly that chain, in the code's order.  It is checked    *)
(* against a reference: what an HTML parser reads back from the escaped    *)
(* text, decoding the five character references escapeHtml emits.         *)
(***************************************************************************)
LOCAL INSTANCE Sequences
LOCAL INSTANCE SequencesExt

\* The character references escapeHtml writes (lines 266-270).
Amp  == <<"&", "a", "m", "p", ";">>
Lt   == <<"&", "l", "t", ";">>
Gt   == <<"&", "g", "t", ";">>
Quot == <<"&", "q", "u", "o", "t", ";">>
Apos == <<"&", "#", "3", "9", ";">>

\* s.replace(/c/g, rep): every occurrence of the character c becomes rep.
ReplaceChar(s, c, rep) ==
    FlattenSeq([i \in 1..Len(s) |-> IF s[i] = c THEN rep ELSE <<s[i]>>])

\* Mutant of EscapeHtml: the ampersand is replaced last, after the other
\* replaces have written ampersands of their own.
EscapeHtmlAmpLast(s) ==
    ReplaceChar(ReplaceChar(ReplaceChar(ReplaceChar(ReplaceChar(
        s, "<", Lt), ">", Gt), "\"", Quot), "'", Apos), "&", Amp)

\* escapeHtml, lines 264-271: &, then <, >, " and '.
EscapeHtml(s) ==
    ReplaceChar(ReplaceChar(ReplaceChar(ReplaceChar(ReplaceChar(
        s, "&", Amp), "<", Lt), ">", Gt), "\"", Quot), "'", Apos)

-----------------------------------------------------------------------------
(* Reference: the text an HTML parser shows for t.  A character reference *)
(* of the five above stands for its character; anything else is itself.  *)
References == <<<<"&", Amp>>, <<"<", Lt>>, <<">", Gt>>, <<"\"", Quot>>, <<"'", Apos>>>>

RECURSIVE Decode(_)
Decode(t) ==
    IF t = <<>> THEN <<>>
    ELSE LET hits == {k \in 1..Len(References) : IsPrefix(References[k][2], t)}
         IN IF hits = {}
            THEN <<Head(t)>> \o Decode(Tail(t))
            ELSE LET k == CHOOSE k \in hits : TRUE
                 IN <<References[k][1]>> \o Decode(SubSeq(t, Len(References[k][2]) + 1, Len(t)))

\* Characters that would open or close markup or an attribute value.
Markup == {"<", ">", "\"", "'"}

\* The texts checked: every text of up to MaxTextLen characters over the
\* characters escapeHtml treats specially and one it leaves alone.
MaxTextLen == 4
Texts == BoundedSeq({"&", "<", ">", "\"", "'", "a"}, MaxTextLen)

\* For every text a seller may type, the escaped text contains no markup
\* character and an HTML parser decodes it back to the text typed
\* (escapeHtml, support.service.ts:264-271, applied at 200-226).
EscapingInert ==
    \A s \in Texts :
        LET e == EscapeHtml(s) IN
        /\ \A i \in 1..Len(e) : e[i] \notin Markup
        /\ Decode(e) = s
=============================================================================
