----------------------------- MODULE Rendering -----------------------------
(***************************************************************************)
(* SimpleTemplateRenderer.Render (template.go): the parameters are put in  *)
(* one after the other, in the order in which Go's map iteration happens   *)
(* to yield them, each into the text that the ones before have left.       *)
(*                                                                         *)
(* Texts are sequences of symbols; a delimiter, like the "{{" that          *)
(* NewSimpleTemplateRenderer sets, may be several of them.                 *)
(***************************************************************************)
EXTENDS Integers, Sequences

CONSTANTS
  Symbols,     \* what texts consist of
  Names,      \* the names of parameters, texts as well
  Templates,  \* texts
  Texts,      \* the values of parameters
  Delimiters  \* pairs of texts, see WithDelimiters

\* strings.ReplaceAll is only modelled for a text that is not empty.
ASSUME RenderingAssumption ==
  /\ Names \subseteq Seq(Symbols) /\ Templates \subseteq Seq(Symbols)
  /\ Texts \subseteq Seq(Symbols) /\ Delimiters \subseteq Seq(Symbols) \X Seq(Symbols)
  /\ \A d \in Delimiters : Len(d[1]) + Len(d[2]) > 0

VARIABLES
  template, params, delims,  \* Render's input
  todo,                      \* the keys that the iteration has not yielded yet
  result

rendering == <<template, params, delims, todo, result>>

InitRendering ==
  /\ template \in Templates
  /\ \E keys \in SUBSET Names : params \in [keys -> Texts]
  /\ delims \in Delimiters
  /\ todo = DOMAIN params
  /\ result = template

Placeholder(key) == delims[1] \o key \o delims[2]

IsAt(s, text, i) ==
  /\ i + Len(s) - 1 <= Len(text)
  /\ \A h \in DOMAIN s : text[i + h - 1] = s[h]

\* One pass over a text: piece[i] is what position i contributes, and the text
\* is taken up again at position next[i].
AssembledFrom(piece, next) ==
  LET from[i \in 1 .. Len(piece) + 1] ==
        IF i > Len(piece) THEN <<>> ELSE piece[i] \o from[next[i]]
  IN  from

Assembled(piece, next) == AssembledFrom(piece, next)[1]

\* strings.ReplaceAll, for an s that is not empty.
ReplaceAll(text, s, by) ==
  Assembled([i \in 1..Len(text) |-> IF IsAt(s, text, i) THEN by ELSE <<text[i]>>],
            [i \in 1..Len(text) |-> i + IF IsAt(s, text, i) THEN Len(s) ELSE 1])

\* Mutant: each turn starts from the template again.
SubstituteInTemplate(key) ==
  /\ key \in todo
  /\ result' = ReplaceAll(template, Placeholder(key), params[key])
  /\ todo' = todo \ {key}
  /\ UNCHANGED <<template, params, delims>>

Substitute(key) ==
  /\ key \in todo
  /\ result' = ReplaceAll(result, Placeholder(key), params[key])
  /\ todo' = todo \ {key}
  /\ UNCHANGED <<template, params, delims>>

NextRendering == \E key \in todo : Substitute(key)

RenderingSpec == InitRendering /\ [][NextRendering]_rendering

-----------------------------------------------------------------------------
(* Properties.                                                             *)

SymbolsOf(text) == {text[i] : i \in DOMAIN text}

Occurs(keys, i) == \E key \in keys : IsAt(Placeholder(key), template, i)
KeyAt(keys, i)  == CHOOSE key \in keys : IsAt(Placeholder(key), template, i)

\* The reader's idea of rendering: go through the template once, and put in
\* what its own placeholders stand for.  Only some keys are given.
Rendered(keys) ==
  Assembled(
    [i \in 1..Len(template) |->
       IF Occurs(keys, i) THEN params[KeyAt(keys, i)] ELSE <<template[i]>>],
    [i \in 1..Len(template) |->
       i + IF Occurs(keys, i) THEN Len(Placeholder(KeyAt(keys, i))) ELSE 1])

\* Between i and j the template has the beginning of s, and not yet all of it.
Unfinished(s, i, j) ==
  /\ j - i < Len(s)
  /\ \A h \in 1 .. j - i : template[i + h - 1] = s[h]

\* No placeholder begins in a value or with another placeholder, and in the
\* template none comes right after the unfinished beginning of one.
Unambiguous ==
  /\ delims[1] # <<>>
  /\ \A key \in DOMAIN params : delims[1][1] \notin SymbolsOf(params[key])
  /\ \A key, other \in DOMAIN params :
       IsAt(Placeholder(key), Placeholder(other), 1) => key = other
  /\ \A j \in 1..Len(template) : Occurs(DOMAIN params, j) =>
       \A i \in 1 .. j - 1, key \in DOMAIN params : ~Unfinished(Placeholder(key), i, j)

\* Whatever the order, a rendered template is the template with its parameters
\* put in, and the values of some do not become placeholders of others.
OrderDoesNotShow == (todo = {} /\ Unambiguous) => result = Rendered(DOMAIN params)

\* The same at every step, for the parameters that have had their turn: this
\* is inductive.
RenderedSoFar ==
  /\ todo \subseteq DOMAIN params
  /\ Unambiguous => result = Rendered(DOMAIN params \ todo)
=============================================================================
