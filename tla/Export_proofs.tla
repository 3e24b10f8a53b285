----------------------------- MODULE Export_proofs -----------------------------
(* Proof that a mirror cannot choose its own export: see MapBound.           *)
EXTENDS Export, TLAPS

Content(Text, Edit) == [mode : {"100644", "100755", "120000"}, text : Text, edits : Seq(Edit)]

(* A single file of the export arrives under its own name with its own text. *)
LEMMA CarriesFile ==
  ASSUME NEW Path, NEW Text, NEW Edit, NEW s \in [Path -> Content(Text, Edit)],
         NEW c, NEW m, ExpectedTree(s, c, m) # Refused,
         NEW source, NEW destination, <<source, destination>> \in Files(c)
  PROVE  LET tree == ExpectedTree(s, c, m) IN
         /\ source \in DOMAIN s /\ destination \in DOMAIN tree
         /\ "text" \in DOMAIN tree[destination]
         /\ tree[destination].text = s[source].text
<1> DEFINE tree == ExpectedTree(s, c, m)
           placed == Placements(s, c, m[c])
           rewritings == Rewritings(s, c, m[c])
           origin(path) == CHOOSE f \in DOMAIN s : <<f, path>> \in placed
<1>1. c \in DOMAIN m /\ Exportable(s, c, m[c])
  BY DEF ExpectedTree
<1>2. tree = [path \in {p[2] : p \in placed} |->
                  [s[origin(path)] EXCEPT !.edits = EditsOf(rewritings, path)]]
  BY <1>1 DEF ExpectedTree
<1>3. <<source, destination>> \in placed
  BY DEF Placements
<1>4. \A p, q \in placed : p[2] = q[2] => p = q
  BY <1>1 DEF Exportable
<1>5. source \in DOMAIN s
  <2>1. \A p \in placed : p[1] \in DOMAIN s
    BY <1>1 DEF Exportable
  <2> QED
    BY <2>1, <1>3
<1> HIDE DEF placed, rewritings, tree
<1>6. origin(destination) = source
  BY <1>3, <1>4, <1>5
<1>7. destination \in DOMAIN tree
  BY <1>2, <1>3
<1>8. s[source] \in Content(Text, Edit)
  BY <1>5
<1>9. \A e : /\ [s[source] EXCEPT !.edits = e].text = s[source].text
             /\ "text" \in DOMAIN [s[source] EXCEPT !.edits = e]
  BY <1>8 DEF Content
<1> HIDE DEF origin
<1>10. tree[destination] =
         [s[origin(destination)] EXCEPT !.edits = EditsOf(rewritings, destination)]
  BY <1>2, <1>7
<1> QED
  BY <1>5, <1>6, <1>7, <1>9, <1>10 DEF tree

(* An accepted mirror carries the monorepo's component map.                  *)
LEMMA CarriesMap ==
  ASSUME NEW Path, NEW Text, NEW Edit, NEW s \in [Path -> Content(Text, Edit)],
         NEW c, NEW mirror, Accepts(s, c, mirror)
  PROVE  MapAt(mirror, ComponentsFile) = MapAt(s, Copybara("components.json"))
<1> DEFINE m == MapAt(mirror, ComponentsFile)
           source == Copybara("components.json")
<1>1. mirror = ExpectedTree(s, c, m) /\ mirror # Refused
  BY DEF Accepts, CompareTrees
<1>2. <<source, ComponentsFile>> \in Files(c)
  BY DEF Files, SharedExports
<1> HIDE DEF m, source
<1>3. /\ source \in DOMAIN s /\ ComponentsFile \in DOMAIN mirror
      /\ mirror[ComponentsFile].text = s[source].text
  BY <1>1, <1>2, CarriesFile
<1> QED
  BY <1>3 DEF MapAt, source

(* A commit of a mirror that release-provenance.py accepts is the export of  *)
(* its component under the monorepo's own component map, although the check  *)
(* reads the map from the mirror: whoever changes it there would have to     *)
(* change it in the monorepo.                                                *)
THEOREM MapBound ==
  ASSUME NEW Path, NEW Text, NEW Edit, NEW s \in [Path -> Content(Text, Edit)],
         NEW c, NEW mirror, Accepts(s, c, mirror)
  PROVE  mirror = Canonical(s, c)
<1>1. MapAt(mirror, ComponentsFile) = MapAt(s, Copybara("components.json"))
  BY CarriesMap
<1> QED
  BY <1>1 DEF Accepts, CompareTrees, Canonical
=============================================================================
