------------------------------- MODULE MCDao --------------------------------
(* The default dao with a model of one table, a dao with a transaction     *)
(* session that models of two tables share, and one that only opens.       *)
EXTENDS Dao
CONSTANTS g, x, y, main, other, a, b, ga, xa, xb
MCConf == [d \in Daos |-> IF d = g THEN <<main>> ELSE IF d = x THEN <<main, other>> ELSE <<other>>]
MCTableOf == [m \in Models |-> IF m = xb THEN b ELSE a]
MCDaoOf == [m \in Models |-> IF m = ga THEN g ELSE x]
\* Bound: y opens its engines before there are models, or not at all: no step of a
\* model reads or writes what that of a dao which is not its own does.
RaceFirst == at[y] = "load" \/ \A m \in Models : pc[m] = "new"
=============================================================================
