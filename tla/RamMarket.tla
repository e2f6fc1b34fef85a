------------------------------ MODULE RamMarket -----------------------------
(***************************************************************************)
(* The market on which RAM is bought and sold for the core token.  The     *)
(* Bancor connectors of exchange_state have equal weights, for which their *)
(* formulas keep the product of the two balances constant; the relay token *)
(* between them is issued and retired within a trade and is left out.      *)
(* Source: src/decentralbank.system/delegate_bandwidth.cpp and             *)
(* eosio.system.cpp.                                                       *)
(***************************************************************************)
EXTENDS Staking

CONSTANTS
  RamQty,   \* the amounts paid for RAM
  RamBytes, \* the bytes bought or sold
  RamSizes, \* the sizes that setram names
  RamRates, \* the rates that setramrate names
  RamWord,  \* 2^32: growth is computed in 32 bits
  FreeRam,  \* the bytes for sale at the start
  RamQuote  \* and what the market starts with of the core token

ASSUME RamAssumption ==
  /\ RamQty \subseteq Nat \ {0} /\ RamBytes \subseteq Nat \ {0}
  /\ RamSizes \subseteq Nat /\ RamRates \subseteq Nat
  /\ RamWord \in Nat \ {0} /\ FreeRam \in Nat \ {0} /\ RamQuote \in Nat \ {0}

VARIABLE ram

RamMarketState ==
  [max_ram_size: Nat, total_ram_bytes_reserved: Nat, total_ram_stake: Nat,
   base: Nat, quote: Nat, new_ram_per_block: Nat, last_ram_increase: 0 .. MaxDay]

\* The contract after its init.
RamInit ==
  ram = [max_ram_size |-> FreeRam, total_ram_bytes_reserved |-> 0,
         total_ram_stake |-> 0, base |-> FreeRam, quote |-> RamQuote,
         new_ram_per_block |-> 0, last_ram_increase |-> 0]

\* Faulty variant of Convert: the price before the trade.
ConvertAtOldPrice(n, from, to) == (to * n) \div from

\* What n of the connector from gives of the connector to.
Convert(n, from, to) == (to * n) \div (from + n)

\* update_ram_supply: RAM grows at the rate since the last change,
\* but wraps when nobody trades for long.
Grown(m) ==
  LET new == ((now - m.last_ram_increase) * m.new_ram_per_block) % RamWord
  IN [m EXCEPT !.max_ram_size = @ + new, !.base = @ + new, !.last_ram_increase = now]

\* .5%, rounded up.
FeeOf(n) == (n + 199) \div 200

\* The quota of r changes by n bytes.
WithBytes(r, n) ==
  LET row == [Row(r) EXCEPT !.ram_bytes = @ + n]
  IN /\ userres' = [userres EXCEPT ![r] = row]
     /\ limits' = [limits EXCEPT ![r] =
          [weight |-> row.weight, ram_bytes |-> row.ram_bytes + RamGift]]
     /\ UNCHANGED delband

\* Faulty variant of Bought: the fee is paid into the market as well.
BoughtGross(m, n, bytes) ==
  [m EXCEPT !.quote = @ + n + FeeOf(n), !.base = @ - bytes,
            !.total_ram_bytes_reserved = @ + bytes, !.total_ram_stake = @ + n + FeeOf(n)]
Bought(m, n, bytes) ==
  [m EXCEPT !.quote = @ + n, !.base = @ - bytes,
            !.total_ram_bytes_reserved = @ + bytes, !.total_ram_stake = @ + n]
Sold(m, n, bytes) == Bought(m, -n, -bytes)

Buyram(payer, r, quant) ==
  LET fee == FeeOf(quant)  n == quant - fee
      m == Grown(ram)
      bytes == Convert(n, m.quote, m.base)
  IN /\ n > 0 /\ quant <= core[payer]
     /\ bytes > 0
     /\ core' = Paid(Paid(core, payer, "eosio.ram", n), payer, "eosio.ramfee", fee)
     /\ ram' = Bought(m, n, bytes)
     /\ WithBytes(r, bytes)

\* Pays what the market would give for as many bytes now, before it grows.
Buyrambytes(payer, r, bytes) ==
  LET quant == Convert(bytes, ram.base, ram.quote)
  IN quant > 0 /\ Buyram(payer, r, quant)

\* Faulty variant of CanSell: of a quota of any size.
CanSellAny(r, bytes) == userres[r] # None
CanSell(r, bytes) == userres[r] # None /\ userres[r].ram_bytes >= bytes

Sellram(r, bytes) ==
  LET m == Grown(ram)
      n == Convert(bytes, m.base, m.quote)
      fee == FeeOf(n)
  IN /\ CanSell(r, bytes)
     /\ n > 1 /\ n <= m.total_ram_stake
     /\ n <= core["eosio.ram"]
     /\ core' = Paid(Paid(core, "eosio.ram", r, n), r, "eosio.ramfee", fee)
     /\ ram' = Sold(m, n, bytes)
     /\ WithBytes(r, -bytes)

\* setram and setramrate, by the system's account.
Setram(size) ==
  /\ size > ram.max_ram_size /\ size > ram.total_ram_bytes_reserved
  /\ ram' = [ram EXCEPT !.max_ram_size = size,
                        !.base = ram.base + (size - ram.max_ram_size)]
Setramrate(rate) == ram' = [Grown(ram) EXCEPT !.new_ram_per_block = rate]
-----------------------------------------------------------------------------
(* Properties *)

\* RAM is neither lost nor sold twice by trades, grants of more RAM and its
\* growth: what is for sale is the size less what is reserved, which is what
\* the rows of the accounts add up to; and the RAM account has the stake that
\* the global state counts, so that sellers can be paid, and more only if
\* users send it there themselves (buyram, sellram, setram,
\* update_ram_supply).
RamIsAccounted ==
  /\ ram.base = ram.max_ram_size - ram.total_ram_bytes_reserved
  /\ ram.total_ram_bytes_reserved =
       SumFunction([r \in Receivers |-> Row(r).ram_bytes])
  /\ core["eosio.ram"] = ram.total_ram_stake
  /\ ram.quote = RamQuote + ram.total_ram_stake

\* Nobody gains from the market by trading: whatever is bought and sold, by
\* whom and in which order, the product of the two balances never falls, and
\* rounding is for the market (exchange_state).
ProductNeverFalls == [][ram'.base * ram'.quote >= ram.base * ram.quote]_ram
=============================================================================
