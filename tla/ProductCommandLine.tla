-------------------------- MODULE ProductCommandLine --------------------------
(***************************************************************************)
(* One launch as the command line asks for it (parseCommandLine): an option *)
(* that is wrong refuses the whole line, and what a product fixes is not    *)
(* replaced by what a launcher appends.  The code stops at the first wrong  *)
(* argument; whichever it is, the line comes to the same.                   *)
(***************************************************************************)
EXTENDS Integers, Sequences, FiniteSets

CONSTANTS
  None,      \* an option, a field or an answer that is not there
  Missing    \* the value of an option that ends the line

\* An argument, with the one after it where the option takes one.
Argument(option, value) == [option |-> option, value |-> value]
NotAnId == "not an id"

TakesValue(option) == option \in {"--title-id", "--product-name", "--width", "--height"}

Given(arguments, option) == {i \in DOMAIN arguments : arguments[i].option = option}
Values(arguments, option) == {arguments[i].value : i \in Given(arguments, option)}

\* Fixed by the product, or by the option that names it first.
Fixed(fixed, named) == IF fixed # None \/ named = {} THEN fixed ELSE CHOOSE value \in named : TRUE

\* "A launcher's own argument cannot be replaced by one appended after it."
Replaces(fixed, named) == \E value \in named : value # Fixed(fixed, named)

\* An option with no value after it or one it does not take, or one it does not know.
Wrong(argument) ==
  CASE TakesValue(argument.option) /\ argument.value = Missing -> TRUE
    [] argument.option = "--title-id" -> argument.value = NotAnId
    [] argument.option = "--product-name" -> argument.value = ""
    [] argument.option \in {"--width", "--height"} -> argument.value <= 0
    [] OTHER -> argument.option \notin {"--hidden", "disc image"}

ParseCommandLine(product, arguments) ==
  LET ids == Values(arguments, "--title-id")
      names == Values(arguments, "--product-name")
  IN [title |-> Fixed(None, Values(arguments, "disc image")),
      expected |-> Fixed(product.title, ids), name |-> Fixed(product.name, names),
      hidden |-> Given(arguments, "--hidden") # {},
      error |-> \/ \E i \in DOMAIN arguments : Wrong(arguments[i])
                \/ Replaces(product.title, ids) \/ Replaces(product.name, names)
                \/ Cardinality(Given(arguments, "disc image")) > 1]
=============================================================================
