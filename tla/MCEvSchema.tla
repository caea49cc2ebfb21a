------------------------------ MODULE MCEvSchema ------------------------------
(* Values for EvSchema: the schema and the posts of this repository, and   *)
(* all tables of two rows over small sets.                                 *)
EXTENDS EvSchema

Row(name, src, code, kind, qos, flags) ==
  [name |-> name, key |-> <<src, code>>, kind |-> kind, qos |-> qos, flags |-> flags,
   doc |-> TRUE]

(* core_ev_schema.h; sources are numbered as in core_ev.h.                 *)
MCShipped == <<
  Row("SYS_START",        1,     1, "NONE",   "DROP_NEW", 1),
  Row("TICK_100MS",       2,  4096, "NONE",   "DROP_NEW", 0),
  Row("TICK_1S",          2,  4097, "NONE",   "DROP_NEW", 0),
  Row("I2C_DONE",         3,  8192, "COPY",   "DROP_NEW", 0),
  Row("I2C_ERROR",        3,  8193, "COPY",   "DROP_NEW", 1),
  Row("LCD_READY",        4, 12289, "NONE",   "DROP_NEW", 0),
  Row("LCD_UPDATED",      4, 12290, "NONE",   "DROP_NEW", 0),
  Row("LCD_ERROR",        4, 12543, "COPY",   "DROP_NEW", 1),
  Row("LCD_CMD_DRAW_ROW", 4, 12304, "LEASE",  "DROP_NEW", 0),
  Row("LCD_CMD_SET_RGB",  4, 12305, "COPY",   "REPLACE_LAST", 0),
  Row("LCD_CMD_FLUSH",    4, 12306, "NONE",   "DROP_NEW", 0),
  Row("DS18_READY",       5, 16384, "LEASE",  "DROP_NEW", 0),
  Row("DS18_ERROR",       5, 16385, "COPY",   "DROP_NEW", 1),
  Row("DS18_DRV_TICK",    5, 16386, "NONE",   "DROP_NEW", 0),
  Row("LOG_NEW",          6, 20480, "LEASE",  "DROP_NEW", 1),
  Row("LOG_READY",        6, 20481, "STREAM", "REPLACE_LAST", 1),
  Row("UART_FRAME",       7, 24576, "LEASE",  "DROP_NEW", 0),
  Row("UART_ERROR",       7, 24577, "COPY",   "DROP_NEW", 0),
  Row("UART_TX_REQ",      7, 24578, "LEASE",  "DROP_NEW", 0),
  Row("GPIO_INPUT",       8, 28672, "COPY",   "DROP_NEW", 0),
  Row("LED_SET_RGB",      1, 32768, "COPY",   "REPLACE_LAST", 0),
  Row("LED_UPDATED",      1, 32769, "NONE",   "DROP_NEW", 0),
  Row("SYS_TEMP_UPDATE",  1,    32, "COPY",   "DROP_NEW", 0) >>

(* Every call of ev_post, ev_post_lease, ev_post_from_isr and their bus    *)
(* forms in the components and projects; what services__timer posts is     *)
(* what its callers arm.                                                   *)
NoneEvents  == {"SYS_START", "TICK_100MS", "TICK_1S", "LCD_READY", "LCD_UPDATED",
          "DS18_DRV_TICK", "LOG_READY"}
CopyEvents  == {"SYS_TEMP_UPDATE", "DS18_ERROR", "I2C_DONE", "I2C_ERROR", "LED_SET_RGB"}
LeaseEvents == {"DS18_READY", "UART_FRAME", "UART_TX_REQ"}
MCSites == [name : NoneEvents, api : {"post"}, zero : {TRUE}]
      \cup [name : CopyEvents, api : {"post"}, zero : BOOLEAN]
      \cup [name : LeaseEvents, api : {"post_lease"}, zero : {FALSE}]
      \cup [name : {"GPIO_INPUT"}, api : {"post_from_isr"}, zero : {FALSE}]

SmallRow == [name : {"", "a", "b"}, key : {<<1, 1>>, <<2, 1>>}, kind : Kinds,
             qos : {"DROP_NEW", "REPLACE_LAST"}, flags : {0, 1, 2}, doc : BOOLEAN]
MCTables == [1 .. 2 -> {r \in SmallRow : r.flags # 0 /\ (r.doc \/ r.flags = 1)}]
=============================================================================
