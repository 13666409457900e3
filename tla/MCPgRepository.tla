--------------------------- MODULE MCPgRepository ---------------------------
(* PgRepository.tla on small instances. *)
EXTENDS PgRepository

CONSTANT Live   \* the accounts that exist to begin with

OneSlot == [c \in Cosmetics |-> "slot"]

Injections(S, T) == {f \in [S -> T] : \A a, b \in S : f[a] = f[b] => a = b}

KeyOf == CHOOSE f \in Injections(Live, Keys) : TRUE
RunOf == CHOOSE f \in Injections(Live, Runs) : TRUE
CodeOf == CHOOSE f \in Injections(Live, Codes) : TRUE

Holder(f, x) == IF \E a \in Live : f[a] = x THEN CHOOSE a \in Live : f[a] = x ELSE None

(* Each account has one key, one run and a link code; one of them or both    *)
(* spent what the run earned, and wear what they bought.                    *)
Populated ==
  /\ status = [a \in Accounts |-> IF a \in Live THEN "live" ELSE "new"]
  /\ owner = [row \in Rows |-> IF row \in Keys THEN Holder(KeyOf, row) ELSE Holder(RunOf, row)]
  /\ LET item == CHOOSE c \in Cosmetics : TRUE
     IN  bought \in {Live \X {item}, {CHOOSE a \in Live : TRUE} \X {item}}
  /\ worn = bought
  /\ codes = [x \in Codes |-> Holder(CodeOf, x)]
  /\ expired = {}
  /\ call = [p \in Calls |-> NoCall]
  /\ answer = [p \in Calls |-> None]

PopulatedInit == Populated /\ PgInit

PopulatedPg == PopulatedInit /\ [][PgNext]_vars
PopulatedApart == PopulatedInit /\ [][ApartNext]_vars /\ PgFairness
=============================================================================
