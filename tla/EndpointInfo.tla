---------------------------- MODULE EndpointInfo ----------------------------
(***************************************************************************)
(* QpEndpointInfo on the wire (src/verbs/endpoint_info.cc): integers in    *)
(* big-endian bytes at fixed places, the GID copied as it is (here one     *)
(* opaque item).  rkey, addr and buf_len, which no caller in the           *)
(* repository sets, are left out.                                          *)
(***************************************************************************)
EXTENDS Integers, Sequences

uint8_t == 0 .. 255
uint16_t == 0 .. 256 * 256 - 1

(* The low bytes of v, most significant first.                             *)
put_u8(v) == <<v % 256>>
put_u16(v) == <<(v \div 256) % 256, v % 256>>
put_u32(v) == put_u16(v \div (256 * 256)) \o put_u16(v)

(* With the cursor at byte i.                                              *)
get_u8(in, i) == in[i]
get_u16(in, i) == in[i] * 256 + in[i + 1]
get_u32(in, i) == get_u16(in, i) * (256 * 256) + get_u16(in, i + 2)

encode_endpoint_info(info) ==
  put_u32(info.rank) \o put_u32(info.qp_num) \o (put_u32(info.psn) \o put_u16(info.lid))
    \o (put_u8(info.port_num) \o put_u8(info.mtu) \o put_u8(info.gid_index) \o <<info.gid>>)

(* Bug: the PSN is read as its low 16 bits, as if the field were a u16     *)
(* with padding.                                                           *)
decode_endpoint_info_Psn16(in) ==
  [rank |-> get_u32(in, 1), qp_num |-> get_u32(in, 5), psn |-> get_u16(in, 11),
   lid |-> get_u16(in, 13), port_num |-> get_u8(in, 15), mtu |-> get_u8(in, 16),
   gid_index |-> get_u8(in, 17), gid |-> in[18]]

decode_endpoint_info(in) ==
  [rank |-> get_u32(in, 1), qp_num |-> get_u32(in, 5), psn |-> get_u32(in, 9),
   lid |-> get_u16(in, 13), port_num |-> get_u8(in, 15), mtu |-> get_u8(in, 16),
   gid_index |-> get_u8(in, 17), gid |-> in[18]]
=============================================================================
