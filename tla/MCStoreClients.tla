--------------------------- MODULE MCStoreClients ---------------------------
(***************************************************************************)
(* Small instances of StoreClients, SharedValues and Rendering for TLC.    *)
(* The three have no variable in common.  A behaviour is one of a single   *)
(* module, while the others stay where they began.                         *)
(***************************************************************************)
EXTENDS StoreClients, SharedValues, Rendering, TLC

VARIABLE subsystem

parts == <<vars, sharing, rendering>>

\* A TTL that has passed before it began, one that ends as it begins, and one
\* that lasts.
OddTTLs == {-1, 0, 1}

SomeSymbols == {"{", "}", "a", "b"}

\* One name is the beginning of the other.
SomeNames == {<<"a">>, <<"a", "b">>}

\* Up to three pieces: placeholders, and what they can be put together from.
Pieces == {<<"{", "a", "}">>, <<"{", "a", "b", "}">>, <<"{", "{", "a", "}", "}">>,
           <<"{", "{", "a", "b", "}", "}">>, <<"{", "{", "a">>, <<"{">>, <<"b", "}">>,
           <<"}">>, <<>>}
SomeTemplates == {p \o q \o r : p \in Pieces, q \in Pieces, r \in Pieces}

\* Nothing, an ordinary text, and a placeholder or the beginning of one.
SomeTexts == {<<>>, <<"b">>, <<"{">>, <<"{", "a", "}">>}

\* A pair of one symbol each, the default pair, and one without a closing half.
SomeDelimiters == {<<<<"{">>, <<"}">>>>, <<<<"{", "{">>, <<"}", "}">>>>, <<<<"{">>, <<>>>>}

Begun ==
  /\ subsystem \in {"store", "values", "templates"}
  /\ Init
  /\ InitSharing /\ (subsystem # "values" => subject = "result")
  /\ IF subsystem = "templates"
     THEN InitRendering
     ELSE /\ template = <<>> /\ params = <<>> /\ delims = <<<<"{">>, <<"}">>>>
          /\ todo = {} /\ result = <<>>

PartsNext ==
  /\ \/ subsystem = "store" /\ Next /\ UNCHANGED <<sharing, rendering>>
     \/ subsystem = "values" /\ NextSharing /\ UNCHANGED <<vars, rendering>>
     \/ subsystem = "templates" /\ NextRendering /\ UNCHANGED <<vars, sharing>>
  /\ UNCHANGED subsystem

PartsSpec == Begun /\ [][PartsNext]_<<parts, subsystem>>

Symmetry == Permutations(Calls) \cup Permutations(Keys) \cup Permutations(Results)
              \cup Permutations(Users)
=============================================================================
