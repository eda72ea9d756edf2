-------------------------------- MODULE Bytes --------------------------------
(* Bytes, their bits, and numbers of two bytes in network byte order.        *)
EXTENDS Integers, Sequences

Byte == 0..255

\* The bytes of a number below 65536, and the number at index k.
Hi(n) == n \div 256
Lo(n) == n % 256
At16(bytes, k) == bytes[k] * 256 + bytes[k + 1]

\* 1 << k for the bits of a byte.
Mask == <<1, 2, 4, 8, 16, 32, 64, 128>>
BitOf(byte, k) == (byte \div Mask[k + 1]) % 2

\* SetBit on one byte.
SetBitIn(byte, k, value) == byte + (value - BitOf(byte, k)) * Mask[k + 1]
=============================================================================
