------------------------------- MODULE MCPila -------------------------------
(***************************************************************************)
(* Pages of four words and lines of six bytes, so that the third line of a *)
(* program is in two pages.  One page of stack: four variables fit.        *)
(***************************************************************************)
EXTENDS Pila

Definir(v) == <<"definir", v>>
Leer(v) == <<"leer", v>>
Poner(v, n) == <<<<"posicion", v>>, <<"valor", n>>, <<"asignar", "">>>>
Copiar(v, w) == <<<<"posicion", v>>, Leer(w), <<"asignar", "">>>>
Fin == <<<<"finalizar", "">>>>
Alloc == <<<<"k19", "">>, <<"k90", 11>>, <<"k94", "">>, <<"k90", 6>>>>

(* a <- f b, and what f does with its own variable *)
Funcion ==
  [lineas |-> << <<Definir("a"), Definir("b")>>,
                 Poner("b", 256),
                 <<<<"posicion", "a">>, Leer("b"), <<"llamar", "f">>, Definir("0"), <<"asignar", "">>>>,
                 Copiar("b", "a"), Copiar("a", "b"),
                 Fin,
                 <<Definir("c")>> \o Poner("c", 261),
                 <<Leer("c"), <<"retornar", "">>>> >>,
   etiquetas |-> <<[nombre |-> "f", pc |-> 6]>>]

(* the parameter is read in the function *)
Parametro ==
  [lineas |-> << <<Definir("a")>>,
                 <<<<"posicion", "a">>, <<"valor", 7>>, <<"llamar", "f">>, Definir("0"), <<"asignar", "">>>>,
                 Fin,
                 <<Leer("0"), <<"retornar", "">>>> >>,
   etiquetas |-> <<[nombre |-> "f", pc |-> 3]>>]

(* a jump to the third label of the text *)
Tercera ==
  [lineas |-> << <<Definir("a"), Definir("b"), Definir("c")>> \o Poner("c", 5),
                 <<<<"ir", "z">>>>, Fin >>,
   etiquetas |-> <<[nombre |-> "x", pc |-> 2], [nombre |-> "y", pc |-> 2], [nombre |-> "z", pc |-> 2]>>]

(* a fifth variable, in the page of the heap *)
Quinta ==
  [lineas |-> << Alloc, <<Definir("a"), Definir("b"), Definir("c"), Definir("d"), Definir("e")>>
                        \o Poner("e", 5) \o <<Leer("e")>>, Fin >>,
   etiquetas |-> <<>>]

(* procedures: the end of one falls through, and a call from a frame with   *)
(* no variable never comes back                                             *)
Procedimiento ==
  [lineas |-> << <<Definir("a")>> \o Poner("a", 3354701),
                 <<<<"procedimiento", "g">>>>,
                 Fin,
                 <<Definir("b")>> \o Copiar("b", "a"),
                 Fin >>,
   etiquetas |-> <<[nombre |-> "g", pc |-> 3]>>]

SinVariables ==
  [lineas |-> << <<<<"procedimiento", "g">>>>, Fin, <<Definir("b")>> \o Poner("b", 1), Fin >>,
   etiquetas |-> <<[nombre |-> "g", pc |-> 2]>>]

(* the same without a heap, read, and where a function has to return *)
Afuera ==
  [lineas |-> << <<Definir("a"), Definir("b"), Definir("c"), Definir("d"), Definir("e"), Leer("e")>>,
                 <<<<"posicion", "e">>, <<"llamar", "f">>>>, Fin,
                 <<<<"valor", 7>>, <<"retornar", "">>>> >>,
   etiquetas |-> <<[nombre |-> "f", pc |-> 3]>>]

(* a return where nobody called *)
Retornos ==
  [lineas |-> << <<<<"valor", 7>>, <<"retornar", "">>>>, <<<<"valor", 7>>, <<"retornar", "">>>>, Fin >>,
   etiquetas |-> <<>>]

MCTextos ==
  <<Funcion, Tercera, Procedimiento, Parametro, SinVariables, Quinta, Afuera, Retornos>>
MCCombinaciones == {<<1, 2>>, <<3, 6>>, <<1, 4>>, <<2, 5>>, <<7, 8>>}
=============================================================================
