----------------------------- MODULE MCDelivery -----------------------------
(***************************************************************************)
(* Small instance of Delivery, and known values of the checksum.           *)
(***************************************************************************)
EXTENDS Delivery

MCArchives == {<<>>, <<{0}>>, <<{}, {3, 7}, {0}>>}
MCVersion  == {0}
MCMachines == {[version |-> {0}, order |-> "little"], [version |-> {1}, order |-> "little"],
               [version |-> {0}, order |-> "big"]}

Digits == <<{0, 4, 5}, {1, 4, 5}, {0, 1, 4, 5}, {2, 4, 5}, {0, 2, 4, 5}, {1, 2, 4, 5},
            {0, 1, 2, 4, 5}, {3, 4, 5}, {0, 3, 4, 5}>>

(***************************************************************************)
(* The published check value of CRC-32: that of "123456789" is 0xCBF43926. *)
(***************************************************************************)
ASSUME Crc32({}, Digits) =
  {1, 2, 5, 8, 11, 12, 13, 18, 20, 21, 22, 23, 24, 25, 27, 30, 31}

(***************************************************************************)
(* A checksum in chunks is the checksum of the whole.                      *)
(***************************************************************************)
ASSUME \A n \in 0 .. 9 :
  Crc32(Crc32({}, Take(Digits, n)), Drop(Digits, n)) = Crc32({}, Digits)

(***************************************************************************)
(* The archives of the run are as DeliveryProofs supposes.                 *)
(***************************************************************************)
ASSUME MagicOnce /\ ChecksumsEnd
=============================================================================
