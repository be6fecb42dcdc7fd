-------------------------- MODULE MCResourceMaster --------------------------
(***************************************************************************)
(* An instance of ResourceMaster for TLC: a class with a family of two     *)
(* types, two characteristics with two options each and a relation between *)
(* two of them, the second characteristic required unless the first is B,  *)
(* a stored resource, and two callers. Each row has one or two versions a  *)
(* client may write.                                                       *)
(***************************************************************************)
EXTENDS ResourceMaster, TLC

CONSTANTS p1, p2

KindOf ==
  <<"CLASE", "FAMILIA", "FAMILIA", "TIPO", "TIPO",
    "CARACTERISTICA", "CARACTERISTICA", "CARACTERISTICA",
    "CONJUNTO_OPCIONES", "OPCION", "OPCION", "OPCION", "OPCION",
    "RELACION_OPCIONES", "RELACION_OPCIONES", "UNIDAD", "POLITICA_UNIDAD",
    "APLICABILIDAD", "APLICABILIDAD", "APLICABILIDAD", "PRESENTACION">>

Coded(code) == [code |-> code, active |-> TRUE]
Characteristic(code) == [code |-> code, upper |-> FALSE, active |-> TRUE]
Option(d, code) == [set |-> 9, definition |-> d, code |-> code, active |-> TRUE]
Relation(a, b) == [from |-> a, to |-> b, active |-> TRUE]
When(code, mode) ==
  [when |-> 6, equals |-> code, mode |-> mode, participates |-> FALSE,
   notApplicable |-> mode = "FORBIDDEN", active |-> TRUE]
Binding(type, d, mode, participates, rules) ==
  [family |-> 2, type |-> type, definition |-> d, set |-> 9, mode |-> mode,
   participates |-> participates, rules |-> rules, active |-> TRUE]

TypeU == [family |-> 2, code |-> "U", active |-> TRUE]

InitialRows ==
  <<Coded("M"), [class |-> 1, code |-> "F", active |-> TRUE], None,
    [family |-> 2, code |-> "T", active |-> TRUE], [TypeU EXCEPT !.active = FALSE],
    Characteristic("gauge"), Characteristic("color"), None,
    Coded("DEFAULT"), Option(6, "A"), Option(6, "B"), Option(7, "A"),
    [Option(7, "B") EXCEPT !.active = FALSE],
    Relation(10, 12), None, Coded("PZA"),
    [family |-> 2, unit |-> 16, allowed |-> TRUE, active |-> TRUE],
    Binding(None, 6, "REQUIRED", TRUE, <<>>),
    Binding(None, 7, "CONDITIONAL", TRUE, <<When("B", "FORBIDDEN")>>), None,
    [type |-> 5, definition |-> 6, active |-> FALSE]>>

VersionsOf ==
  <<{Coded("N")}, {[class |-> 1, code |-> "G", active |-> TRUE]},
    {[class |-> 1, code |-> "H", active |-> FALSE]}, {[family |-> 3, code |-> "T", active |-> TRUE]},
    {TypeU, [TypeU EXCEPT !.code = "V"]},
    {Characteristic("gauge")}, {Characteristic("hue")}, {Characteristic("gauge"), Characteristic("weight")},
    {Coded("OTHER")}, {}, {}, {}, {[Option(7, "C") EXCEPT !.active = FALSE], Option(7, "B")},
    {Relation(11, 12)}, {Relation(12, 10)}, {}, {[InitialRows[17] EXCEPT !.allowed = FALSE]},
    {Binding(None, 6, "OPTIONAL", FALSE, <<>>)},
    {Binding(None, 7, "OPTIONAL", FALSE, <<>>),
     Binding(None, 7, "CONDITIONAL", TRUE, <<When("A", "OPTIONAL"), When("B", "FORBIDDEN")>>)},
    {Binding(4, 7, "OPTIONAL", TRUE, <<>>)}, {[type |-> 5, definition |-> 7, active |-> TRUE]}>>

Values ==
  {[gauge |-> "A"], [gauge |-> "B"], [gauge |-> "A", color |-> "A"], [gauge |-> "A", color |-> "B"]}
IntentsOf ==
  [class : {"M"}, family : {"F"}, type : {"T", "U"}, unit : {"PZA"}, values : Values]

FirstResource(active) ==
  [class |-> 1, family |-> 2, type |-> 4, unit |-> 16,
   values |-> (6 :> [binding |-> 18, option |-> 10]) @@ (7 :> [binding |-> 19, option |-> 12]),
   identity |-> [scope |-> [class |-> "M", family |-> "F", type |-> "T"],
                 values |-> [gauge |-> "A", color |-> "A"]],
   active |-> active, revision |-> 1]
InitialResources == {<<FirstResource(active), None>> : active \in BOOLEAN}

Interchangeable == Permutations(Callers)
=============================================================================
