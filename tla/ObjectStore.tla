----------------------------- MODULE ObjectStore -----------------------------
(***************************************************************************)
(* What the Storage port of internal/storage/storage.go promises, the way  *)
(* the image routes use it: keys name whole objects, which appear and      *)
(* disappear in one step, whatever happens to the process that stores      *)
(* them, and which never change, because browsers keep them for a year as  *)
(* "immutable" (serveProfileImage).                                        *)
(***************************************************************************)
CONSTANTS
  Key,     \* object keys
  Object,  \* contents an object can have
  None     \* "the key simply does not exist"

VARIABLE objects

ObjectStoreTypeOK == objects \in [Key -> Object \cup {None}]

Put(k, c) ==
  /\ objects[k] \in {None, c}
  /\ objects' = [objects EXCEPT ![k] = c]
Delete(k) == objects' = [objects EXCEPT ![k] = None]

ObjectStoreNext ==
  \E k \in Key : Delete(k) \/ \E c \in Object : Put(k, c)

ObjectStoreSpec == ObjectStoreTypeOK /\ [][ObjectStoreNext]_objects
=============================================================================
