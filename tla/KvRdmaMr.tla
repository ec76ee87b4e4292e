------------------------------ MODULE KvRdmaMr -------------------------------
(***************************************************************************)
(* Memory regions and the arithmetic on them: buffers for requests and     *)
(* responses, the slices of a bulk, what is sent and received with them,   *)
(* and the numbers that stand for request contexts on the wire.            *)
(*                                                                         *)
(* Addresses and size_t (64 bits) do not wrap here; what the code keeps in *)
(* 32 bits is taken modulo Word.                                           *)
(***************************************************************************)
EXTENDS Integers

CONSTANT Word   \* 2^32

HeaderSize == 12   \* sizeof(struct req_header), packed

ASSUME WordAssumption == Word \in Nat /\ Word > 2 * HeaderSize

MrTypes == {"REQ", "RESP", "SERVER"}

(* A memory region, and an entry of a scatter/gather list.                 *)
Mr(addr, length)  == [addr |-> addr, length |-> length]
Sge(addr, length) == [addr |-> addr, length |-> length % Word]

Bytes(r) == r.addr..(r.addr + r.length - 1)

-----------------------------------------------------------------------------
(* Allocation.                                                             *)

(* size is a uint32_t in the functions for one region.                     *)
AllocReq(buf, size)  == Mr(buf, (size + HeaderSize) % Word)
AllocResp(buf, size) == Mr(buf, size)

ReqBuf(mr)  == mr.addr + HeaderSize
RespBuf(mr) == mr.addr

(* A bulk is one registered region, and a slice for each index.            *)
SliceSize(type, size) == IF type = "RESP" THEN size ELSE size + HeaderSize

AllocBulk(buf, type, size, count) == Mr(buf, SliceSize(type, size) * count)

MrsGet(buf, type, size, index) ==
  Mr(buf + index * SliceSize(type, size), SliceSize(type, size))

-----------------------------------------------------------------------------
(* What is sent and received.                                              *)

(* kv_rdma_send_req: its assertion, and the bytes it sends.                *)
SendAsserted(req, req_sz) == req_sz <= req.length
SendSge(req, req_sz)      == Sge(req.addr, req_sz + HeaderSize)

(* server_data_init posts a slot the first time, on_write_resp_done again. *)
FirstRecv(buf, max_msg_sz, count, i) ==
  Sge(MrsGet(buf, "SERVER", max_msg_sz, i).addr,
      AllocBulk(buf, "SERVER", max_msg_sz, count).length)

NextRecv(buf, max_msg_sz, i) ==
  LET mr == MrsGet(buf, "SERVER", max_msg_sz, i) IN Sge(mr.addr, mr.length)

(* The bytes of a receive that a message is written to, if it fits.        *)
Fits(sge, byte_len)   == byte_len <= sge.length
Placed(sge, byte_len) == sge.addr..(sge.addr + byte_len - 1)

(* on_recv_req: its assertion, and the size it passes to the handler.      *)
RecvAsserted(byte_len) == byte_len > HeaderSize
ReqSize(byte_len)      == byte_len - HeaderSize

(* kv_rdma_make_resp, with memory of the slot.                             *)
RespSge(resp, resp_sz) == Sge(resp, resp_sz)

-----------------------------------------------------------------------------
(* A request context on the wire: its offset in the pool, as a uint32_t,   *)
(* and back from the immediate data, as an int32_t.                        *)
Element(buf, ele_size, i) == buf + i * ele_size

GetId(buf, ele) == (ele - buf) % Word

AsInt32(n) == IF n < Word \div 2 THEN n ELSE n - Word

GetEle(buf, id) == buf + AsInt32(id)
=============================================================================
