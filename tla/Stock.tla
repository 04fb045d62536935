------------------------------- MODULE Stock --------------------------------
(* An asset and the movements of its stock (asset_service).  Its tag is    *)
(* kept unique by an index and is not modelled.                            *)
(* Bounds: MaxStock, MaxMoves.                                             *)
EXTENDS Naturals, Sequences, Requests

CONSTANTS MaxStock, MaxMoves

ASSUME StockAssumption == MaxStock \in Nat

VARIABLES
    asset,      \* Asset: [qty, scrapped]; NoAsset before, Removed after
    moves       \* InventoryMovement, in the order of their commits

stock == <<asset, moves>>

NoAsset == [qty |-> 0, scrapped |-> FALSE, there |-> FALSE]
Removed == [NoAsset EXCEPT !.scrapped = TRUE]
Asset == [qty : 0 .. MaxStock, scrapped : BOOLEAN, there : {TRUE}]
MovementType == {"ENTRADA", "SAIDA", "AJUSTE_INVENTARIO", "BAIXA_PATRIMONIAL"}

StockInit == asset = NoAsset /\ moves = <<>>

(* create_asset: an initial stock is an entry.                             *)
CreateAsset(w) ==
    /\ Free(w) /\ asset = NoAsset
    /\ \E a \in Asset :
          /\ asset' = a
          /\ moves' = IF a.qty = 0 THEN <<>> ELSE
                <<[prev |-> 0, new |-> a.qty, by |-> w]>>
    /\ UNCHANGED req

(* update_asset: the condition, never the quantity.                        *)
UpdateAsset(w) ==
    /\ Free(w) /\ asset.there
    /\ asset' = [asset EXCEPT !.scrapped = ~@]
    /\ UNCHANGED <<moves, req>>

(* delete_asset: with its movements.                                       *)
DeleteAsset(w) ==
    /\ Free(w) /\ asset.there
    /\ asset' = Removed /\ moves' = <<>>
    /\ UNCHANGED req

NewQuantity(kind, n, had) ==
    CASE kind = "ENTRADA" -> had + n
      [] kind = "SAIDA" -> had - n
      [] kind = "AJUSTE_INVENTARIO" -> n
      [] OTHER -> IF n > had THEN 0 ELSE had - n

(* Valid movements of a stock: _validate_quantity, InsufficientStockError. *)
Valid(kind, n, had) ==
    /\ n > 0 \/ kind = "AJUSTE_INVENTARIO"
    /\ kind = "SAIDA" => n <= had

Move(w, had) ==
    \E kind \in MovementType, n \in 0 .. MaxStock :
        /\ Valid(kind, n, had)
        /\ NewQuantity(kind, n, had) <= MaxStock
        /\ Ask(w, [op |-> "move", prev |-> had, new |-> NewQuantity(kind, n, had),
                   scrap |-> kind = "BAIXA_PATRIMONIAL" /\ ~asset.scrapped])

(* A mistake: the stock is taken from the last movement.                   *)
RecordFromLog(w) ==
    /\ Free(w) /\ asset.there /\ Len(moves) < MaxMoves
    /\ Move(w, IF moves = <<>> THEN 0 ELSE moves[1].new)
    /\ UNCHANGED stock

(* record_movement, up to its commit: the new quantity from the one read.  *)
RecordMovement(w) ==
    /\ Free(w) /\ asset.there /\ Len(moves) < MaxMoves
    /\ Move(w, asset.qty)
    /\ UNCHANGED stock

(* The commit writes the movement, and those columns of the asset that the *)
(* request changed.                                                        *)
MovementRecorded(w) ==
    /\ Serving(w, "move") /\ asset.there /\ Len(moves) < MaxMoves
    /\ LET r == req[w] IN
          /\ asset' = [asset EXCEPT
                !.qty = IF r.new # r.prev THEN r.new ELSE @,
                !.scrapped = @ \/ r.scrap]
          /\ moves' = Append(moves, [prev |-> r.prev, new |-> r.new, by |-> w])
    /\ Answer(w)

StockCrash(w) == Dies(w) /\ UNCHANGED stock

StockNext == \E w \in Workers :
    \/ CreateAsset(w) \/ UpdateAsset(w) \/ DeleteAsset(w)
    \/ RecordMovement(w) \/ MovementRecorded(w) \/ StockCrash(w)

StockSpec == StockInit /\ NoRequest /\ [][StockNext]_<<stock, req>>
-----------------------------------------------------------------------------
Last(n) == moves[Len(moves) - n]

(* The movements account for the stock: it is what the latest says, and    *)
(* each starts where the one before ended.  Where that fails, two workers  *)
(* recorded movements from one reading of the stock.                       *)
StockLostOnlyByRace ==
    /\ moves # <<>> /\ asset.qty # Last(0).new
          => Len(moves) > 1 /\ Last(1).by # Last(0).by
    /\ \A i \in 1 .. Len(moves) - 1 : moves[i + 1].prev # moves[i].new =>
          \/ moves[i].by # moves[i + 1].by
          \/ i > 1 /\ moves[i].prev = moves[i].new /\ moves[i - 1].by # moves[i].by
=============================================================================
